---- MODULE Spec2Model ----
(***************************************************************************)
(* A model of the Shopify store scraper: the resumable discovery batch     *)
(* (discovery.py: DorkState, SeenDomains, discover_stores) and the         *)
(* per-domain scrape state machine (scraper.py: scrape_store).             *)
(*                                                                         *)
(* Text is modelled as a sequence of atoms (short strings).  A URL is the  *)
(* sequence of its lexical pieces; a page is the sequence of its           *)
(* whitespace-separated words.  Timestamps and log lines are left out.     *)
(***************************************************************************)
EXTENDS Integers, Sequences, FiniteSets, TLC

VARIABLES
    \* ---- durable files (discovery.py) ----
    stateFile,      \* data/scraper_state.json
    seenFile,       \* data/seen_domains.json
    storesFile,     \* output/discovered_stores_<cc>.json
    \* ---- one discover_stores invocation ----
    dpc,            \* position of the discovery process
    state,          \* DorkState object: query_index, total_discovered
    seen,           \* SeenDomains.domains
    all_queries,    \* generate_dork_queries(...)
    batch_size,
    batch_start,
    batch_end,
    batch_queries,
    i,              \* queries of the batch completed so far
    new_domains,
    ret,            \* value returned by discover_stores
    \* ---- history of the discovery runs ----
    exit,           \* which return statement the last run left by
    killed_at,      \* where the last run was terminated ("" if it was not)
    p0,             \* persisted position read at the start of the run
    ledger0,        \* ledger membership read at the start of the run
    searched,       \* queries handed to _search_google in this run, in order
    found,          \* domains the searches of this run yielded
    processed,      \* per query index: runs since the last reset that executed it
                    \* and moved the persisted cursor on
    returnedEver,   \* per domain: times it was returned as new, over all runs
    indexed,        \* the query list of the run that wrote the persisted position
                    \* (<<>> when no run has, or a reset has zeroed it)
    \* ---- configuration (config.py) ----
    PLAYWRIGHT_ENABLED,
    \* ---- one scrape_store invocation (scraper.py) ----
    spc,            \* position of the scrape
    domain,
    use_playwright_fallback,
    attempt,        \* home-page attempts made
    homepage_html,
    all_html_parts,
    cj,             \* contact paths visited so far
    best_emails,
    best_whatsapp,
    playwright_urls,
    pj,             \* playwright_urls visited so far
    result,         \* the ScrapeResult
    calls,          \* fetches made, in order: via, url, and the page returned
    \* ---- constructing the cursor or the ledger from a file (discovery.py) ----
    cpath,          \* which file: "state" (STATE_FILE) or "dedup" (DEDUP_FILE)
    content,        \* what the file holds
    loaded,         \* how the construction ended and the object it gave
    \* ---- one scrape_stores_batch invocation (scraper.py) ----
    bpc,            \* position of the batch
    bdomains,       \* the domains argument
    bfallback,      \* the use_playwright_fallback argument
    bi,             \* the loop index
    bresults,       \* the results list
    returned,       \* the list the batch returned
    \* ---- a function applied to an argument ----
    fname,          \* which function
    fin,            \* its argument
    fout,           \* its value
    \* ---- one run_pipeline invocation (main.py) ----
    ppc,            \* position of the pipeline
    pargs,          \* the arguments domains, dry_run, skip_verify
    pdomains,       \* domains
    pscrape,        \* scrape_results
    pverify,        \* verify_results
    pprobes,        \* answers to the liveness probes the verifier made
    pposts,         \* emails the verifier posted to the service, in order
    pexport,        \* rows written by the export
    psteps,         \* the steps that have run, in order
    pret            \* what run_pipeline returned

dvars == <<stateFile, seenFile, storesFile, dpc, state, seen, all_queries,
           batch_size, batch_start, batch_end, batch_queries, i, new_domains,
           ret, exit, killed_at, p0, ledger0, searched, found, processed,
           returnedEver, indexed>>

svars == <<PLAYWRIGHT_ENABLED, spc, domain, use_playwright_fallback, attempt,
           homepage_html, all_html_parts, cj, best_emails, best_whatsapp,
           playwright_urls, pj, result, calls>>

cvars == <<cpath, content, loaded>>

bvars == <<bpc, bdomains, bfallback, bi, bresults, returned>>

pvars == <<fname, fin, fout>>

rvars == <<ppc, pargs, pdomains, pscrape, pverify, pprobes, pposts, pexport,
           psteps, pret>>

xvars == <<cvars, bvars, pvars, rvars>>

vars == <<dvars, svars, xvars>>

Min(a, b) == IF a < b THEN a ELSE b
Max(a, b) == IF a > b THEN a ELSE b
Range(s) == {s[k] : k \in 1..Len(s)}

\* Sequences over S of length at most n.
SeqUpTo(S, n) == UNION {[1..k -> S] : k \in 0..n}

(***************************************************************************)
(* Bounds of the model.                                                    *)
(***************************************************************************)
NumBaseTemplates == 2   \* DORK_QUERY_TEMPLATES entries kept (5 in config.py)
MaxBatch == 3           \* largest max_queries argument tried
MaxResults == 2         \* most URLs one search returns
Cap == 2                \* history counters stop counting here

(***************************************************************************)
(* config.py                                                               *)
(***************************************************************************)
DORK_BATCH_SIZE == 10

\* COUNTRIES, cut to the enabled country and one disabled one.
COUNTRIES ==
    << [code |-> "ZA", tlds |-> <<".co.za", ".za">>, enabled |-> TRUE],
       [code |-> "BR", tlds |-> <<".com.br", ".br">>, enabled |-> FALSE] >>

get_enabled_countries == SelectSeq(COUNTRIES, LAMBDA c : c.enabled)

\* Templates are named by their position in the configured lists.
DORK_QUERY_TEMPLATES == [k \in 1..NumBaseTemplates |-> <<"base", k>>]
\* The niche list is cut to its first entry.
NICHE_DORK_TEMPLATES == << <<"niche", 1>> >>

(***************************************************************************)
(* normalize_domain.  URL atoms: the two scheme prefixes, "www.", labels,  *)
(* dotted suffixes, and the delimiters ":" "/" "?" "#".                    *)
(***************************************************************************)
None == <<>>

ToLower(t) ==
    CASE t = "Sale" -> "sale"
      [] t = "WWW." -> "www."
      [] t = "Owner" -> "owner"
      [] t = "WhatsApp" -> "whatsapp"
      [] t = "Shopify" -> "shopify"
      [] OTHER -> t

\* Number of characters of an atom.
TokLen(t) ==
    CASE t = "https://" -> 8
      [] t = "http://" -> 7
      [] t \in {"www.", "WWW.", "shop", "Sale", "sale", "8080"} -> 4
      [] t \in {".co.za"} -> 6
      [] t \in {".za"} -> 3
      [] t \in {"localhost"} -> 9
      [] t \in {"products"} -> 8
      [] OTHER -> 1

HasDot(t) == t \in {"www.", "WWW.", ".co.za", ".za", "."}

RECURSIVE StrLen(_)
StrLen(s) == IF s = <<>> THEN 0 ELSE TokLen(Head(s)) + StrLen(Tail(s))

\* The atoms of s before the first atom in stops (all of s if there is none).
RECURSIVE UpTo(_, _)
UpTo(s, stops) ==
    IF s = <<>> \/ Head(s) \in stops THEN <<>>
    ELSE <<Head(s)>> \o UpTo(Tail(s), stops)

normalize_domain(url) ==
    IF url = None THEN None
    ELSE
      LET withScheme == IF Head(url) \in {"http://", "https://"}
                        THEN url ELSE <<"https://">> \o url
          \* urlparse: the netloc runs from the scheme to the first / ? or #;
          \* an empty netloc falls back to path.split("/")[0], which is empty
          \* because the path is empty or starts with "/".
          netloc == UpTo(Tail(withScheme), {"/", "?", "#"})
          lowered == [k \in 1..Len(netloc) |-> ToLower(netloc[k])]
          noWww == IF lowered # <<>> /\ Head(lowered) = "www."
                   THEN Tail(lowered) ELSE lowered
          dom == UpTo(noWww, {":"})
      IN  IF (~ \E k \in 1..Len(dom) : HasDot(dom[k])) \/ StrLen(dom) < 4
          THEN None
          ELSE dom

RECURSIVE _extract_domains_from_urls(_)
_extract_domains_from_urls(urls) ==
    IF urls = <<>> THEN <<>>
    ELSE LET dom == normalize_domain(Head(urls))
             rest == _extract_domains_from_urls(Tail(urls))
         IN  IF dom # None THEN <<dom>> \o rest ELSE rest

\* What the search backend may return for a query.
Urls ==
    { <<"https://", "www.", "shop", ".co.za", "/", "products">>,
      <<"shop", ".co.za">>,
      <<"http://", "Sale", ".za", ":", "8080">>,
      <<"localhost">> }

Domains == {normalize_domain(u) : u \in Urls} \ {None}

(***************************************************************************)
(* generate_dork_queries: country, then suffix, then template.             *)
(***************************************************************************)
lstrip_dot(tld) ==
    CASE tld = ".co.za" -> "co.za"
      [] tld = ".za" -> "za"
      [] tld = ".com.br" -> "com.br"
      [] tld = ".br" -> "br"

RECURSIVE Flatten(_)
Flatten(ss) == IF ss = <<>> THEN <<>> ELSE Head(ss) \o Flatten(Tail(ss))

generate_dork_queries(include_niche) ==
    LET templates == IF include_niche
                     THEN DORK_QUERY_TEMPLATES \o NICHE_DORK_TEMPLATES
                     ELSE DORK_QUERY_TEMPLATES
        forTld(tld) == [k \in 1..Len(templates) |->
                            [tld |-> lstrip_dot(tld), tmpl |-> templates[k]]]
        forCountry(c) == Flatten([k \in 1..Len(c.tlds) |-> forTld(c.tlds[k])])
        enabled == get_enabled_countries
    IN  Flatten([k \in 1..Len(enabled) |-> forCountry(enabled[k])])

(***************************************************************************)
(* Constructing SeenDomains and DorkState from whatever the file holds     *)
(* (discovery.py lines 100-116 and 148-164).                               *)
(***************************************************************************)
\* A file is missing, or holds text json.load rejects, or holds a JSON value.
\* JSON values carry their type; an object is given by what its keys
\* "domains", "query_index" and "total_discovered" hold, Absent for a key
\* it does not have.
Absent == [t |-> "absent"]
JNull == [t |-> "null"]
JNum(n) == [t |-> "number", number |-> n]
JStr(chars) == [t |-> "string", chars |-> chars]
JList(items) == [t |-> "list", items |-> items]
JObject(d, q, n) ==
    [t |-> "object", domains |-> d, query_index |-> q, total_discovered |-> n]

Unparseable == [kind |-> "text"]
Parsed(value) == [kind |-> "json", value |-> value]

\* dict.get(key, default) on the value held for the key.
Get(held, default) == IF held = Absent THEN default ELSE held

\* set(x) for a JSON value x: the members, or the TypeError Python raises
\* for a value that cannot be iterated or a member that cannot be hashed.
PySet(x) ==
    IF x.t = "list"
    THEN IF \E k \in 1..Len(x.items) : x.items[k].t \in {"list", "object"}
         THEN [raised |-> "TypeError"]
         ELSE [raised |-> "", members |-> Range(x.items)]
    ELSE IF x.t = "string"
    THEN [raised |-> "", members |-> {JStr(<<x.chars[k]>>) : k \in 1..Len(x.chars)}]
    ELSE IF x.t = "object"
    THEN [raised |-> "", members |-> {JStr(<<"domains">>), JStr(<<"query_index">>),
                                      JStr(<<"total_discovered">>)}]
    ELSE [raised |-> "TypeError"]

\* SeenDomains(): lines 100-116.  json.JSONDecodeError and KeyError are the
\* only exceptions caught.
SeenDomains_construct(file) ==
    IF file.kind = "missing" THEN [ended |-> "ok", domains |-> {}]
    ELSE IF file.kind = "text" THEN [ended |-> "ok", domains |-> {}]
    ELSE IF file.value.t # "object"
    THEN [ended |-> "raised", error |-> "AttributeError"]
    ELSE LET made == PySet(Get(file.value.domains, JList(<<>>)))
         IN  IF made.raised # ""
             THEN [ended |-> "raised", error |-> made.raised]
             ELSE [ended |-> "ok", domains |-> made.members]

\* DorkState(): lines 148-164.
DorkState_construct(file) ==
    IF file.kind = "missing" THEN [ended |-> "ok", query_index |-> JNum(0)]
    ELSE IF file.kind = "text" THEN [ended |-> "ok", query_index |-> JNum(0)]
    ELSE IF file.value.t # "object"
    THEN [ended |-> "raised", error |-> "AttributeError"]
    ELSE [ended |-> "ok", query_index |-> Get(file.value.query_index, JNum(0))]

(***************************************************************************)
(* Durable files.  A file is missing or holds the JSON its owner wrote.    *)
(***************************************************************************)
Missing == [kind |-> "missing"]

\* DorkState.__init__ and DorkState._load
DorkState_load(file) ==
    IF file.kind = "json"
    THEN [query_index |-> file.query_index,
          total_discovered |-> file.total_discovered]
    ELSE [query_index |-> 0, total_discovered |-> 0]

\* DorkState.save
DorkState_save(st) ==
    [kind |-> "json", query_index |-> st.query_index,
     total_discovered |-> st.total_discovered]

\* DorkState.reset
DorkState_reset(st) == [st EXCEPT !.query_index = 0, !.total_discovered = 0]

\* The characters of an atom, as code points.
Spell(t) ==
    CASE t = "www." -> <<119, 119, 119, 46>>
      [] t = "WWW." -> <<87, 87, 87, 46>>
      [] t = "shop" -> <<115, 104, 111, 112>>
      [] t = "sale" -> <<115, 97, 108, 101>>
      [] t = "Sale" -> <<83, 97, 108, 101>>
      [] t = ".co.za" -> <<46, 99, 111, 46, 122, 97>>
      [] t = ".za" -> <<46, 122, 97>>
      [] t = "." -> <<46>>
      [] t = "localhost" -> <<108, 111, 99, 97, 108, 104, 111, 115, 116>>
      [] t = "products" -> <<112, 114, 111, 100, 117, 99, 116, 115>>
      [] t = "8080" -> <<56, 48, 56, 48>>

RECURSIVE Chars(_)
Chars(s) == IF s = <<>> THEN <<>> ELSE Spell(Head(s)) \o Chars(Tail(s))

\* a < b for two lists of code points, as Python orders str.
RECURSIVE CodesLess(_, _)
CodesLess(a, b) ==
    IF b = <<>> THEN FALSE
    ELSE IF a = <<>> THEN TRUE
    ELSE IF Head(a) = Head(b) THEN CodesLess(Tail(a), Tail(b))
    ELSE Head(a) < Head(b)

\* sorted(domains) for a set of str.
RECURSIVE Sorted(_)
Sorted(domains) ==
    IF domains = {} THEN <<>>
    ELSE LET first == CHOOSE d \in domains :
                        \A e \in domains \ {d} : CodesLess(Chars(d), Chars(e))
         IN  <<first>> \o Sorted(domains \ {first})

\* The object SeenDomains.save dumps: "domains" and "count".
DedupObject(d, c) ==
    [t |-> "object", domains |-> d, count |-> c,
     query_index |-> Absent, total_discovered |-> Absent]

\* SeenDomains.__init__ and SeenDomains._load for a file that is missing or
\* that save wrote: the members of the list, as str.
SeenDomains_load(file) ==
    LET made == SeenDomains_construct(file)
    IN  {m.chars : m \in made.domains}

\* A save that leaves out the last domain of the sorted list.
SeenDomains_save_short(domains) ==
    LET listed == Sorted(domains)
        kept == SubSeq(listed, 1, Len(listed) - 1)
    IN  Parsed(DedupObject(JList([k \in 1..Len(kept) |-> JStr(kept[k])]),
                           JNum(Cardinality(domains))))

\* SeenDomains.save: json.dump of the sorted member list and its count.
SeenDomains_save(domains) ==
    LET listed == Sorted(domains)
    IN  Parsed(DedupObject(JList([k \in 1..Len(listed) |-> JStr(listed[k])]),
                           JNum(Cardinality(domains))))

\* A membership test that takes every domain for new.
is_new_always(domains, dom) == TRUE

\* SeenDomains.is_new
is_new(domains, dom) == dom \notin domains

\* An add that keeps only the domain added last.
add_replace(domains, dom) == {dom}

\* SeenDomains.add
add(domains, dom) == domains \cup {dom}

\* Python's s[a:b] for a list s (0-based, negative indices count from the end).
PySlice(s, a, b) ==
    LET n == Len(s)
        lo == IF a < 0 THEN Max(a + n, 0) ELSE Min(a, n)
        hi == IF b < 0 THEN Max(b + n, 0) ELSE Min(b, n)
    IN  IF lo < hi THEN SubSeq(s, lo + 1, hi) ELSE <<>>

\* An exhaustion test that lets the cursor sit on the end of the list.
Exhausted_strict(st, qs) == st.query_index > Len(qs)

\* Line 299: the cursor has passed the last query.
Exhausted(st, qs) == st.query_index >= Len(qs)

\* A batch end that is not clipped to the list length.
BatchEnd_unclipped(start, size, total) == start + size

\* batch_end of discover_stores
BatchEnd(start, size, total) == Min(start + size, total)

\* The dedup loop of discover_stores over one query's domains:
\* the ledger and the new-domain list after it.
RECURSIVE Dedup(_, _, _)
Dedup(domains, sn, nd) ==
    IF domains = <<>> THEN [seen |-> sn, new_domains |-> nd]
    ELSE IF is_new(sn, Head(domains))
         THEN Dedup(Tail(domains), add(sn, Head(domains)), Append(nd, Head(domains)))
         ELSE Dedup(Tail(domains), sn, nd)

\* _save_discovered_stores: the entries appended to the stores file.
StoreEntries(domains) ==
    [k \in 1..Len(domains) |-> [domain |-> domains[k], scraped |-> FALSE]]

\* A cursor that is written back where it was read.
CursorAfterBatch_stuck(st, end) == st.query_index

\* Line 342: the position the cursor is set to when the batch is complete.
CursorAfterBatch(st, end) == end

Count(s, x) == Cardinality({k \in 1..Len(s) : s[k] = x})

QueryIndexes == 0..(Len(generate_dork_queries(TRUE)) - 1)

(***************************************************************************)
(* discover_stores                                                         *)
(***************************************************************************)
DInit ==
    /\ stateFile = Missing
    /\ seenFile = Missing
    /\ storesFile = <<>>
    /\ dpc = "idle"
    /\ state = [query_index |-> 0, total_discovered |-> 0]
    /\ seen = {}
    /\ all_queries = <<>>
    /\ batch_size = 0
    /\ batch_start = 0
    /\ batch_end = 0
    /\ batch_queries = <<>>
    /\ i = 0
    /\ new_domains = <<>>
    /\ ret = <<>>
    /\ exit = ""
    /\ killed_at = ""
    /\ p0 = 0
    /\ ledger0 = {}
    /\ searched = <<>>
    /\ found = {}
    /\ processed = [k \in QueryIndexes |-> 0]
    /\ returnedEver = [d \in Domains |-> 0]
    /\ indexed = <<>>

Resting == dpc \in {"idle", "done", "killed"}

files == <<stateFile, seenFile, storesFile>>
history == <<processed, returnedEver, indexed>>

\* Lines 289-317: load the cursor and the ledger, generate the queries, leave
\* at once when exhausted or dry, otherwise select the batch.
\* max_queries = 0 stands for None: both select DORK_BATCH_SIZE.
StartRun(max_queries, include_niche, dry_run) ==
    /\ Resting
    /\ LET st == DorkState_load(stateFile)
           qs == generate_dork_queries(include_niche)
           size == IF max_queries # 0 THEN max_queries ELSE DORK_BATCH_SIZE
           end == BatchEnd(st.query_index, size, Len(qs))
       IN  /\ state' = st
           /\ seen' = SeenDomains_load(seenFile)
           /\ all_queries' = qs
           /\ batch_size' = size
           /\ p0' = st.query_index
           /\ ledger0' = SeenDomains_load(seenFile)
           /\ IF Exhausted(st, qs)
              THEN /\ dpc' = "done"
                   /\ exit' = "exhausted"
                   /\ UNCHANGED <<batch_start, batch_end, batch_queries>>
              ELSE /\ batch_start' = st.query_index
                   /\ batch_end' = end
                   /\ batch_queries' = PySlice(qs, st.query_index, end)
                   /\ IF dry_run
                      THEN dpc' = "done" /\ exit' = "dry_run"
                      ELSE dpc' = "loop" /\ exit' = ""
    /\ i' = 0
    /\ new_domains' = <<>>
    /\ ret' = <<>>
    /\ killed_at' = ""
    /\ searched' = <<>>
    /\ found' = {}
    /\ UNCHANGED <<svars, xvars, files, history>>

\* Lines 321-339: one iteration of the query loop, the search returning urls.
QueryStep(urls) ==
    /\ dpc = "loop"
    /\ i < Len(batch_queries)
    /\ LET domains == _extract_domains_from_urls(urls)
           after == Dedup(domains, seen, new_domains)
       IN  /\ seen' = after.seen
           /\ new_domains' = after.new_domains
           /\ found' = found \cup Range(domains)
    /\ searched' = Append(searched, batch_queries[i + 1])
    /\ i' = i + 1
    /\ UNCHANGED <<svars, xvars, files, history, dpc, state, all_queries, batch_size,
                   batch_start, batch_end, batch_queries, ret, exit,
                   killed_at, p0, ledger0>>

\* Lines 342-344: advance the cursor and write the state file.
SaveState ==
    /\ dpc = "loop"
    /\ i = Len(batch_queries)
    /\ LET st == [query_index |-> CursorAfterBatch(state, batch_end),
                  total_discovered |-> state.total_discovered + Len(new_domains)]
       IN  /\ state' = st
           /\ stateFile' = DorkState_save(st)
    /\ dpc' = "save_seen"
    /\ processed' = [k \in DOMAIN processed |->
                        IF k < Len(all_queries)
                        THEN Min(Cap, processed[k] + Count(searched, all_queries[k + 1]))
                        ELSE processed[k]]
    /\ indexed' = all_queries
    /\ UNCHANGED <<svars, xvars, seenFile, storesFile, returnedEver, seen, all_queries, batch_size,
                   batch_start, batch_end, batch_queries, i, new_domains, ret,
                   exit, killed_at, p0, ledger0, searched, found>>

\* Line 345: write the ledger file.
SaveSeen ==
    /\ dpc = "save_seen"
    /\ seenFile' = SeenDomains_save(seen)
    /\ dpc' = "save_stores"
    /\ UNCHANGED <<svars, xvars, stateFile, storesFile, history, state, seen, all_queries,
                   batch_size, batch_start, batch_end, batch_queries, i,
                   new_domains, ret, exit, killed_at, p0, ledger0, searched,
                   found>>

\* Lines 348-354: append to the stores file and return the new domains.
SaveStoresAndReturn ==
    /\ dpc = "save_stores"
    /\ storesFile' = storesFile \o StoreEntries(new_domains)
    /\ ret' = new_domains
    /\ exit' = "batch"
    /\ dpc' = "done"
    /\ returnedEver' = [d \in DOMAIN returnedEver |->
                            Min(Cap, returnedEver[d] + Count(new_domains, d))]
    /\ UNCHANGED <<svars, xvars, stateFile, seenFile, processed, indexed, state, seen, all_queries,
                   batch_size, batch_start, batch_end, batch_queries, i,
                   new_domains, killed_at, p0, ledger0, searched, found>>

\* The process is terminated from outside while a batch is under way:
\* what is in memory is gone, the files stay as they are.
Kill ==
    /\ dpc \in {"loop", "save_seen", "save_stores"}
    /\ killed_at' = dpc
    /\ dpc' = "killed"
    /\ UNCHANGED <<svars, xvars, files, history, state, seen, all_queries, batch_size,
                   batch_start, batch_end, batch_queries, i, new_domains, ret,
                   exit, p0, ledger0, searched, found>>

\* Lines 412-416 (--reset): load the cursor, zero it, save it.
Reset ==
    /\ Resting
    /\ stateFile' = DorkState_save(DorkState_reset(DorkState_load(stateFile)))
    /\ dpc' = "idle"
    /\ processed' = [k \in DOMAIN processed |-> 0]
    /\ indexed' = <<>>
    /\ UNCHANGED <<svars, xvars, seenFile, storesFile, returnedEver, state, seen, all_queries,
                   batch_size, batch_start, batch_end, batch_queries, i,
                   new_domains, ret, exit, killed_at, p0, ledger0, searched,
                   found>>

(***************************************************************************)
(* Page text (scraper.py).  A page is a sequence of atoms; the atoms are   *)
(* cut so that every configured pattern is a whole number of atoms, so a   *)
(* substring test is a test for a run of consecutive atoms.  " " and "\n"  *)
(* are atoms of their own.                                                 *)
(***************************************************************************)
Lower(s) == [k \in 1..Len(s) |-> ToLower(s[k])]

\* pat in text (str.__contains__)
Contains(text, pat) ==
    \E k \in 0..(Len(text) - Len(pat)) :
        \A j \in 1..Len(pat) : text[k + j] = pat[j]

\* None, as against the empty text "".
NoPage == <<"None">>

\* A truth test that takes the empty text for a page.
Truthy_not_none(html) == html # NoPage

\* `if html:` is false for None and for the empty text.
Truthy(html) == html # NoPage /\ html # <<>>

\* "\n".join(parts)
RECURSIVE Join(_)
Join(parts) ==
    IF parts = <<>> THEN <<>>
    ELSE IF Len(parts) = 1 THEN parts[1]
    ELSE parts[1] \o <<"\n">> \o Join(Tail(parts))

\* Atoms made only of characters of [a-zA-Z0-9._%+\-].
LocalChars(a) ==
    a \in {"owner", "Owner", "info", "noreply", "store", "gmail", "logo",
           "_100x", "2x", ".png", ".co", ".za", ".com", "xxx", ".xxx",
           "shopify", "cdn.", ".theme", "my", "-section", "whatsapp",
           "WhatsApp", "-widget", "api.", "web.", "27821234567", "123",
           "password-page", "Acme", "hello", "+", "support", "admin", "x",
           "real", "contact"}

\* Atoms made only of characters of [a-zA-Z0-9.\-].
DomainChars(a) == LocalChars(a) /\ a \notin {"_100x", "+"}

\* Atoms that are a dot and two or more letters.
IsTld(a) == a \in {".png", ".co", ".za", ".com", ".xxx", ".theme"}

\* EMAIL_REGEX at the "@" at position at: the match as [from, to], or
\* [from |-> 0] when the regex does not match there.  from: start of the
\* run of local-part atoms that ends at the "@"; to: the last top-level
\* domain atom of the run of domain atoms after it (the quantifiers are
\* greedy), which needs at least one atom between the "@" and itself.
EmailAt(s, at, pos) ==
    LET starts == {f \in pos..(at - 1) : \A k \in f..(at - 1) : LocalChars(s[k])}
        ends == {e \in (at + 2)..Len(s) :
                    /\ \A k \in (at + 1)..e : DomainChars(s[k])
                    /\ IsTld(s[e])}
    IN  IF starts = {} \/ ends = {} THEN [from |-> 0, to |-> 0]
        ELSE [from |-> CHOOSE f \in starts : \A g \in starts : f <= g,
              to |-> CHOOSE e \in ends : \A g \in ends : e >= g]

\* re.findall(EMAIL_REGEX, html) from position pos on: the matches from
\* left to right, without overlap.
RECURSIVE FindEmails(_, _)
FindEmails(s, pos) ==
    LET ats == {k \in pos..Len(s) : s[k] = "@" /\ EmailAt(s, k, pos).from # 0}
    IN  IF ats = {} THEN <<>>
        ELSE LET at == CHOOSE k \in ats : \A g \in ats : k <= g
                 m == EmailAt(s, at, pos)
             IN  <<SubSeq(s, m.from, m.to)>> \o FindEmails(s, m.to + 1)

\* config.py, in atoms
JUNK_EMAIL_PATTERNS ==
    << <<"noreply", "@">>, <<"no-reply", "@">>,
       <<"support", "@", "shopify", ".com">>, <<"help", "@", "shopify", ".com">>,
       <<"@", "sentry", ".io">>, <<"@", "tally", ".so">>, <<"@", "bento", ".me">>,
       <<"@", "example", ".com">>, <<"@", "wixpress", ".com">>,
       <<"@", "wix", ".com">>, <<"@", "shopify", ".com">>,
       <<"@", "klaviyo", ".com">>, <<"@", "mailchimp", ".com">>,
       <<"@", "hubspot", ".com">>, <<"@", "zendesk", ".com">> >>

FREE_EMAIL_PROVIDERS ==
    { <<"gmail", ".com">>, <<"yahoo", ".com">>, <<"hotmail", ".com">>,
      <<"outlook", ".com">>, <<"aol", ".com">>, <<"icloud", ".com">>,
      <<"protonmail", ".com">> }

\* EMAIL_PRIORITY, in the order of the dict.
EMAIL_PRIORITY ==
    << <<"owner", 1>>, <<"founder", 1>>, <<"ceo", 1>>, <<"hello", 2>>,
       <<"hi", 2>>, <<"contact", 3>>, <<"info", 4>>, <<"enquiries", 4>>,
       <<"enquiry", 4>>, <<"sales", 5>>, <<"support", 6>>, <<"admin", 7>> >>

DEFAULT_EMAIL_PRIORITY == 3
NoEmailPriority == 99

\* email.split("@")[0] and email.split("@")[-1]
LocalPart(email) == UpTo(email, {"@"})
DomainPart(email) ==
    LET ats == {k \in 1..Len(email) : email[k] = "@"}
    IN  IF ats = {} THEN email
        ELSE SubSeq(email, (CHOOSE k \in ats : \A g \in ats : k >= g) + 1, Len(email))

\* A junk test that knows the configured substrings only.
_is_junk_email_patterns_only(email) ==
    \E k \in 1..Len(JUNK_EMAIL_PATTERNS) :
        Contains(Lower(email), Lower(JUNK_EMAIL_PATTERNS[k]))

_is_junk_email(email) ==
    LET email_lower == Lower(email)
        n == Len(email_lower)
        sized(a) == a \in {"_100x"}                    \* _\d+x
        dotted(a) == IsTld(a) \/ a \in {".", ".co.za"}  \* starts with "."
    IN  \/ email_lower[n] \in {".png", ".jpg", ".jpeg", ".webp", ".gif", ".svg", ".css", ".js"}
        \/ \E k \in 1..(n - 2) :
              email_lower[k] = "@" /\ email_lower[k + 1] = "2x" /\ dotted(email_lower[k + 2])
        \/ \E k \in 1..(n - 1) : sized(email_lower[k]) /\ email_lower[k + 1] = "@"
        \/ \E k \in 1..(n - 1) : sized(email_lower[k]) /\ dotted(email_lower[k + 1])
        \/ email_lower \in { <<"xxx", "@", "xxx", ".xxx">>,
                             <<"name", "@", "email", ".com">>,
                             <<"monique", "@", "email", ".com">>,
                             <<"admin", "@", "example", ".com">>,
                             <<"email", "@", "example", ".com">>,
                             <<"your", "@", "email", ".com">> }
        \/ \E k \in 1..Len(JUNK_EMAIL_PATTERNS) :
              Contains(email_lower, Lower(JUNK_EMAIL_PATTERNS[k]))

_is_free_provider(email) == DomainPart(Lower(email)) \in FREE_EMAIL_PROVIDERS

\* A priority that is the one of the last configured keyword found.
_get_email_priority_last(email) ==
    LET local_part == LocalPart(Lower(email))
        hits == {k \in 1..Len(EMAIL_PRIORITY) : Contains(local_part, <<EMAIL_PRIORITY[k][1]>>)}
    IN  IF hits = {} THEN DEFAULT_EMAIL_PRIORITY
        ELSE EMAIL_PRIORITY[CHOOSE k \in hits : \A g \in hits : k >= g][2]

\* Lines 124-134: the keywords are tried in the order of the dict.
_get_email_priority(email) ==
    LET local_part == LocalPart(Lower(email))
        hits == {k \in 1..Len(EMAIL_PRIORITY) : Contains(local_part, <<EMAIL_PRIORITY[k][1]>>)}
    IN  IF hits = {} THEN DEFAULT_EMAIL_PRIORITY
        ELSE EMAIL_PRIORITY[CHOOSE k \in hits : \A g \in hits : k <= g][2]

\* A dedup that tells upper from lower case.
RECURSIVE UniqueEmails_exact(_, _)
UniqueEmails_exact(raw, seenLower) ==
    IF raw = <<>> THEN <<>>
    ELSE IF Head(raw) \in seenLower THEN UniqueEmails_exact(Tail(raw), seenLower)
    ELSE <<Head(raw)>> \o UniqueEmails_exact(Tail(raw), seenLower \cup {Head(raw)})

\* The case-insensitive dedup of extract_emails: first occurrences, in order.
RECURSIVE UniqueEmails(_, _)
UniqueEmails(raw, seenLower) ==
    IF raw = <<>> THEN <<>>
    ELSE IF Lower(Head(raw)) \in seenLower THEN UniqueEmails(Tail(raw), seenLower)
    ELSE <<Head(raw)>> \o UniqueEmails(Tail(raw), seenLower \cup {Lower(Head(raw))})

\* A sort key that is the priority alone.
KeyLess_priority_only(r1, r2) == r1.priority < r2.priority

\* The key of results.sort: (priority, is_free_provider), False before True.
KeyLess(r1, r2) ==
    \/ r1.priority < r2.priority
    \/ r1.priority = r2.priority /\ ~r1.is_free_provider /\ r2.is_free_provider

\* list.sort is stable: r goes after every element that is not greater.
RECURSIVE InsertSorted(_, _)
InsertSorted(sorted, r) ==
    IF sorted = <<>> THEN <<r>>
    ELSE IF KeyLess(r, Head(sorted)) THEN <<r>> \o sorted
    ELSE <<Head(sorted)>> \o InsertSorted(Tail(sorted), r)

RECURSIVE SortResults(_)
SortResults(rs) ==
    IF rs = <<>> THEN <<>>
    ELSE InsertSorted(SortResults(SubSeq(rs, 1, Len(rs) - 1)), rs[Len(rs)])

extract_emails(html) ==
    LET unique_emails == UniqueEmails(FindEmails(html, 1), {})
        kept == SelectSeq(unique_emails, LAMBDA e : ~_is_junk_email(e))
        results == [k \in 1..Len(kept) |->
                       [email |-> Lower(kept[k]),
                        priority |-> _get_email_priority(kept[k]),
                        is_free_provider |-> _is_free_provider(kept[k])]]
    IN  SortResults(results)

(***************************************************************************)
(* detect_whatsapp                                                         *)
(***************************************************************************)
WHATSAPP_DEFINITIVE_PATTERNS ==
    << <<"wa.me/">>, <<"api.", "whatsapp", ".com", "/send">>,
       <<"web.", "whatsapp", ".com", "/send">> >>

WHATSAPP_WIDGET_PATTERNS ==
    << <<"wa-chat-box">>, <<"whatsapp", "-widget">>,
       <<"elfsight", ".com", "/", "whatsapp">>, <<"whatsapp", "-chat-widget">>,
       <<"wa-automate">>, <<"wati.io">> >>

WHATSAPP_WEAK_PATTERNS == << <<"whatsapp">>, <<"WhatsApp">> >>

\* Atoms of 7 to 15 digits.
PhoneDigits(a) == a \in {"27821234567"}

\* re.search(WHATSAPP_PHONE_REGEX, html).group(1), None if there is no match.
PhoneIn(html) ==
    LET hits == {k \in 1..(Len(html) - 1) :
                    /\ html[k] = "wa.me/"
                    /\ \/ PhoneDigits(html[k + 1])
                       \/ /\ html[k + 1] = "+"
                          /\ k + 2 <= Len(html)
                          /\ PhoneDigits(html[k + 2])}
    IN  IF hits = {} THEN None
        ELSE LET k == CHOOSE h \in hits : \A g \in hits : h <= g
             IN  IF html[k + 1] = "+" THEN <<"+", html[k + 2]>> ELSE <<html[k + 1]>>

AnyPattern(html_lower, patterns) ==
    \E k \in 1..Len(patterns) : Contains(html_lower, Lower(patterns[k]))

WhatsAppResult == [found |-> FALSE, confidence |-> "none", phone |-> None]

\* A detection that looks for the widget markers first.
detect_whatsapp_widget_first(html) ==
    LET html_lower == Lower(html)
    IN  IF AnyPattern(html_lower, WHATSAPP_WIDGET_PATTERNS)
        THEN [found |-> TRUE, confidence |-> "widget", phone |-> None]
        ELSE IF AnyPattern(html_lower, WHATSAPP_DEFINITIVE_PATTERNS)
        THEN [found |-> TRUE, confidence |-> "definitive", phone |-> PhoneIn(html)]
        ELSE IF AnyPattern(html_lower, WHATSAPP_WEAK_PATTERNS)
        THEN [found |-> TRUE, confidence |-> "maybe", phone |-> None]
        ELSE [found |-> FALSE, confidence |-> "none", phone |-> None]

detect_whatsapp(html) ==
    LET html_lower == Lower(html)
    IN  IF AnyPattern(html_lower, WHATSAPP_DEFINITIVE_PATTERNS)
        THEN [found |-> TRUE, confidence |-> "definitive", phone |-> PhoneIn(html)]
        ELSE IF AnyPattern(html_lower, WHATSAPP_WIDGET_PATTERNS)
        THEN [found |-> TRUE, confidence |-> "widget", phone |-> None]
        ELSE IF AnyPattern(html_lower, WHATSAPP_WEAK_PATTERNS)
        THEN [found |-> TRUE, confidence |-> "maybe", phone |-> None]
        ELSE [found |-> FALSE, confidence |-> "none", phone |-> None]

(***************************************************************************)
(* Store name, platform check, gate check                                  *)
(***************************************************************************)
\* An og:site_name meta tag is the atom "<og:site_name>" followed by its
\* content (one atom, "" when empty); a title is "<title>", the atoms of its
\* text, and "</title>".  The suffixes are tried once each, in this order
\* ("--" stands for the en dash).
TitleSuffixes ==
    << " -- Powered by Shopify", " - Powered by Shopify", " | Powered by Shopify",
       " -- Home", " - Home" >>

RECURSIVE StripSuffixes(_, _)
StripSuffixes(title, suffixes) ==
    IF suffixes = <<>> THEN title
    ELSE IF title # <<>> /\ title[Len(title)] = Head(suffixes)
         THEN StripSuffixes(SubSeq(title, 1, Len(title) - 1), Tail(suffixes))
         ELSE StripSuffixes(title, Tail(suffixes))

_extract_store_name(html) ==
    LET ogs == {k \in 1..(Len(html) - 1) : html[k] = "<og:site_name>"}
        og == CHOOSE k \in ogs : \A g \in ogs : k <= g
        titles == {k \in 1..Len(html) : html[k] = "<title>"}
        title == CHOOSE k \in titles : \A g \in titles : k <= g
        text == UpTo(SubSeq(html, title + 1, Len(html)), {"</title>"})
    IN  IF ogs # {} /\ html[og + 1] # "" THEN <<html[og + 1]>>
        ELSE IF titles # {} /\ text # <<>> THEN StripSuffixes(text, TitleSuffixes)
        ELSE <<>>

_is_shopify_store(html) ==
    AnyPattern(Lower(html),
               << <<"cdn.", "shopify", ".com">>, <<"shopify", ".com", "/s/">>,
                  <<"Shopify", ".theme">>, <<"my", "shopify", ".com">>,
                  <<"shopify", "-section">> >>)

_is_password_protected(html) ==
    AnyPattern(Lower(html),
               << <<"password-page">>, <<"storefront-password">>,
                  <<"opening", " ", "soon">>,
                  <<"store", " ", "is", " ", "not", " ", "available">> >>)

(***************************************************************************)
(* scrape_store                                                            *)
(***************************************************************************)
NumContactPaths == 2    \* CONTACT_PAGE_PATHS entries kept (8 in config.py)

SCRAPE_MAX_RETRIES == 3

CONTACT_PAGE_PATHS ==
    SubSeq(<< "/pages/contact", "/pages/contact-us", "/pages/about",
              "/pages/about-us", "/pages/kontak", "/pages/oor-ons",
              "/pages/get-in-touch", "/pages/support" >>,
           1, Min(NumContactPaths, 8))

\* What a site may serve as its home page.
HomePages ==
    { NoPage,
      <<>>,
      <<"password-page", " ", "info", "@", "gmail", ".com">>,
      <<"cdn.", "shopify", ".com", " ", "password-page">>,
      <<"cdn.", "shopify", ".com", "<title>", "Acme", " - Home", "</title>">>,
      <<"Shopify", ".theme", " ", "WhatsApp">> }

\* What it may serve at a contact path.
ContactPages ==
    { NoPage,
      <<"mailto:", "Owner", "@", "store", ".co", ".za">>,
      <<"logo", "_100x", "@", "2x", ".png", " ", "whatsapp", "-widget">> }

\* What the headless browser may return.
RenderedPages ==
    { NoPage,
      <<"hello", "@", "store", ".com", " ", "https://", "wa.me/", "27821234567">>,
      <<"https://", "wa.me/", "27821234567">>,
      <<"Acme">> }

\* base_url and urljoin(base_url, path); path "" is the home page.
Url(d, path) == [domain |-> d, path |-> path]

\* ScrapeResult(domain=domain), without scraped_at.
ScrapeResult(d) ==
    [domain |-> d, store_name |-> <<>>, email |-> None,
     email_priority |-> NoEmailPriority, email_is_free_provider |-> FALSE,
     has_whatsapp |-> FALSE, whatsapp_confidence |-> "none",
     whatsapp_phone |-> None, scrape_status |-> "pending", error |-> ""]

\* A verdict that lets a gated store through.
HomeVerdict_ungated(html) ==
    IF ~Truthy(html) THEN "homepage_unreachable"
    ELSE IF ~_is_shopify_store(html) THEN "not_shopify"
    ELSE ""

\* A verdict that looks for the gate before the platform.
HomeVerdict_gate_first(html) ==
    IF ~Truthy(html) THEN "homepage_unreachable"
    ELSE IF _is_password_protected(html) THEN "password_protected"
    ELSE IF ~_is_shopify_store(html) THEN "not_shopify"
    ELSE ""

\* Lines 383-401: the error the home page ends the scrape with, "" if none.
HomeVerdict(html) ==
    IF ~Truthy(html) THEN "homepage_unreachable"
    ELSE IF ~_is_shopify_store(html) THEN "not_shopify"
    ELSE IF _is_password_protected(html) THEN "password_protected"
    ELSE ""

\* A fallback test that forgets what the fast path found.
NeedsFallback_always(emails, use_fallback, enabled) == use_fallback /\ enabled

\* Line 425
NeedsFallback(emails, use_fallback, enabled) ==
    emails = <<>> /\ use_fallback /\ enabled

\* A loop body that takes the messaging signal from whatever came back.
RenderUpdate_overwrite(pw_html, emails, whatsapp) ==
    [best_emails |-> emails,
     best_whatsapp |-> IF Truthy(pw_html) THEN detect_whatsapp(pw_html)
                       ELSE WhatsAppResult,
     break |-> FALSE]

\* Lines 435-446: the body of the render loop for one rendered page.
RenderUpdate(pw_html, emails, whatsapp) ==
    IF ~Truthy(pw_html)
    THEN [best_emails |-> emails, best_whatsapp |-> whatsapp, break |-> FALSE]
    ELSE IF extract_emails(pw_html) # <<>>
    THEN [best_emails |-> extract_emails(pw_html), best_whatsapp |-> whatsapp,
          break |-> TRUE]
    ELSE IF ~whatsapp.found /\ detect_whatsapp(pw_html).found
    THEN [best_emails |-> emails, best_whatsapp |-> detect_whatsapp(pw_html),
          break |-> FALSE]
    ELSE [best_emails |-> emails, best_whatsapp |-> whatsapp, break |-> FALSE]

\* A final status that wants a signal.
FinalStatus_needs_signal(emails, whatsapp) ==
    IF emails = <<>> /\ ~whatsapp.found THEN "failed" ELSE "success"

\* Line 458
FinalStatus(emails, whatsapp) == "success"

\* A build that copies the confidence and the phone but not the found flag.
BuildResult_no_flag(res, emails, whatsapp) ==
    LET withEmail ==
            IF emails # <<>>
            THEN [res EXCEPT !.email = emails[1].email,
                             !.email_priority = emails[1].priority,
                             !.email_is_free_provider = emails[1].is_free_provider]
            ELSE res
    IN  [withEmail EXCEPT !.whatsapp_confidence = whatsapp.confidence,
                          !.whatsapp_phone = whatsapp.phone,
                          !.scrape_status = FinalStatus(emails, whatsapp)]

\* Lines 449-458
BuildResult(res, emails, whatsapp) ==
    LET withEmail ==
            IF emails # <<>>
            THEN [res EXCEPT !.email = emails[1].email,
                             !.email_priority = emails[1].priority,
                             !.email_is_free_provider = emails[1].is_free_provider]
            ELSE res
    IN  [withEmail EXCEPT !.has_whatsapp = whatsapp.found,
                          !.whatsapp_confidence = whatsapp.confidence,
                          !.whatsapp_phone = whatsapp.phone,
                          !.scrape_status = FinalStatus(emails, whatsapp)]

\* No scrape_store call yet.
SIdle ==
    /\ spc = "idle"
    /\ domain = None
    /\ use_playwright_fallback = TRUE
    /\ attempt = 0
    /\ homepage_html = NoPage
    /\ all_html_parts = <<>>
    /\ cj = 0
    /\ best_emails = <<>>
    /\ best_whatsapp = WhatsAppResult
    /\ playwright_urls = <<>>
    /\ pj = 0
    /\ result = ScrapeResult(None)
    /\ calls = <<>>

\* config.py line 145
SInit == PLAYWRIGHT_ENABLED = TRUE /\ SIdle

\* Lines 362-375: the call and its locals.
StartScrape(d, fallback) ==
    /\ spc \in {"idle", "done"}
    /\ domain' = d
    /\ use_playwright_fallback' = fallback
    /\ result' = ScrapeResult(d)
    /\ all_html_parts' = <<>>
    /\ best_emails' = <<>>
    /\ best_whatsapp' = WhatsAppResult
    /\ homepage_html' = NoPage
    /\ attempt' = 0
    /\ cj' = 0
    /\ pj' = 0
    /\ playwright_urls' = <<>>
    /\ calls' = <<>>
    /\ spc' = IF SCRAPE_MAX_RETRIES > 0 THEN "fetch_home" ELSE "check_home"
    /\ UNCHANGED <<dvars, xvars, PLAYWRIGHT_ENABLED>>

\* A retry loop that goes on after a page was fetched.
HomeLoopEnds_exhaustive(page, made) == made >= SCRAPE_MAX_RETRIES

\* Lines 376-379: the retry loop ends at the first page fetched (break), or
\* when range(SCRAPE_MAX_RETRIES) is used up.
HomeLoopEnds(page, made) == Truthy(page) \/ made >= SCRAPE_MAX_RETRIES

\* Lines 376-381: one attempt at the home page, the fetcher returning page.
FetchHome(page) ==
    /\ spc = "fetch_home"
    /\ calls' = Append(calls, [via |-> "requests", url |-> Url(domain, ""), page |-> page])
    /\ homepage_html' = page
    /\ attempt' = attempt + 1
    /\ spc' = IF HomeLoopEnds(page, attempt + 1)
              THEN "check_home" ELSE "fetch_home"
    /\ UNCHANGED <<dvars, xvars, PLAYWRIGHT_ENABLED, domain, use_playwright_fallback,
                   all_html_parts, cj, best_emails, best_whatsapp,
                   playwright_urls, pj, result>>

\* Lines 383-405: give up, skip, or keep the home page and its store name.
CheckHome ==
    /\ spc = "check_home"
    /\ LET verdict == HomeVerdict(homepage_html)
       IN  IF verdict # ""
           THEN /\ result' = [result EXCEPT
                                 !.scrape_status = IF verdict = "homepage_unreachable"
                                                   THEN "failed" ELSE "skipped",
                                 !.error = verdict]
                /\ spc' = "done"
                /\ UNCHANGED all_html_parts
           ELSE /\ result' = [result EXCEPT
                                 !.store_name = _extract_store_name(homepage_html)]
                /\ all_html_parts' = Append(all_html_parts, homepage_html)
                /\ spc' = "contact"
    /\ UNCHANGED <<dvars, xvars, PLAYWRIGHT_ENABLED, domain, use_playwright_fallback,
                   attempt, homepage_html, cj, best_emails, best_whatsapp,
                   playwright_urls, pj, calls>>

\* Lines 408-416: one contact path, the fetcher returning page.
FetchContact(page) ==
    /\ spc = "contact"
    /\ cj < Len(CONTACT_PAGE_PATHS)
    /\ calls' = Append(calls, [via |-> "requests",
                               url |-> Url(domain, CONTACT_PAGE_PATHS[cj + 1]),
                               page |-> page])
    /\ all_html_parts' = IF Truthy(page) THEN Append(all_html_parts, page)
                         ELSE all_html_parts
    /\ cj' = cj + 1
    /\ UNCHANGED <<dvars, xvars, PLAYWRIGHT_ENABLED, spc, domain, use_playwright_fallback,
                   attempt, homepage_html, best_emails, best_whatsapp,
                   playwright_urls, pj, result>>

\* Lines 419-431: extract from everything collected and decide on the fallback.
Extract ==
    /\ spc = "contact"
    /\ cj = Len(CONTACT_PAGE_PATHS)
    /\ LET combined_html == Join(all_html_parts)
           emails == extract_emails(combined_html)
       IN  /\ best_emails' = emails
           /\ best_whatsapp' = detect_whatsapp(combined_html)
           /\ IF NeedsFallback(emails, use_playwright_fallback, PLAYWRIGHT_ENABLED)
              THEN /\ playwright_urls' =
                        <<Url(domain, "")>> \o
                        (IF CONTACT_PAGE_PATHS # <<>>
                         THEN <<Url(domain, CONTACT_PAGE_PATHS[1])>> ELSE <<>>)
                   /\ spc' = "render"
              ELSE /\ playwright_urls' = <<>>
                   /\ spc' = "build"
    /\ UNCHANGED <<dvars, xvars, PLAYWRIGHT_ENABLED, domain, use_playwright_fallback,
                   attempt, homepage_html, all_html_parts, cj, pj, result, calls>>

\* Lines 433-446 and 256-280: one pass of the render loop.  With the renderer
\* disabled _fetch_page_playwright returns None and starts no browser.
Render(page) ==
    /\ spc = "render"
    /\ pj < Len(playwright_urls)
    /\ LET pw_html == IF PLAYWRIGHT_ENABLED THEN page ELSE NoPage
           upd == RenderUpdate(pw_html, best_emails, best_whatsapp)
       IN  /\ calls' = IF PLAYWRIGHT_ENABLED
                       THEN Append(calls, [via |-> "playwright",
                                           url |-> playwright_urls[pj + 1],
                                           page |-> page])
                       ELSE calls
           /\ best_emails' = upd.best_emails
           /\ best_whatsapp' = upd.best_whatsapp
           /\ spc' = IF upd.break \/ pj + 1 = Len(playwright_urls)
                     THEN "build" ELSE "render"
    /\ pj' = pj + 1
    /\ UNCHANGED <<dvars, xvars, PLAYWRIGHT_ENABLED, domain, use_playwright_fallback,
                   attempt, homepage_html, all_html_parts, cj, playwright_urls,
                   result>>

\* Lines 449-466: fill in the result and return it.
Build ==
    /\ spc = "build"
    /\ result' = BuildResult(result, best_emails, best_whatsapp)
    /\ spc' = "done"
    /\ UNCHANGED <<dvars, xvars, PLAYWRIGHT_ENABLED, domain, use_playwright_fallback,
                   attempt, homepage_html, all_html_parts, cj, best_emails,
                   best_whatsapp, playwright_urls, pj, calls>>

(***************************************************************************)
(* The DorkState object used by itself (discovery.py lines 142-180).       *)
(* `state` is the object, stateFile its file.                              *)
(***************************************************************************)
MaxSteps == 1           \* largest |steps| handed to advance

\* DorkState(): a new object read from the state file.
CursorLoad ==
    /\ Resting
    /\ state' = DorkState_load(stateFile)
    /\ UNCHANGED <<svars, xvars, files, history, dpc, seen, all_queries,
                   batch_size, batch_start, batch_end, batch_queries, i,
                   new_domains, ret, exit, killed_at, p0, ledger0, searched,
                   found>>

\* DorkState.advance
advance(st, steps) == [st EXCEPT !.query_index = @ + steps]

CursorAdvance(steps) ==
    /\ Resting
    /\ state' = advance(state, steps)
    /\ UNCHANGED <<svars, xvars, files, history, dpc, seen, all_queries,
                   batch_size, batch_start, batch_end, batch_queries, i,
                   new_domains, ret, exit, killed_at, p0, ledger0, searched,
                   found>>

\* DorkState.save
CursorSave ==
    /\ Resting
    /\ stateFile' = DorkState_save(state)
    /\ UNCHANGED <<svars, xvars, seenFile, storesFile, history, dpc, state,
                   seen, all_queries, batch_size, batch_start, batch_end,
                   batch_queries, i, new_domains, ret, exit, killed_at, p0,
                   ledger0, searched, found>>

(***************************************************************************)
(* Files that SeenDomains() and DorkState() may meet                       *)
(***************************************************************************)
DomainLists ==
    { <<>>, <<JStr(<<"shop", ".co.za">>)>>,
      <<JStr(<<"shop", ".co.za">>), JStr(<<"sale", ".za">>)>> }

\* What DorkState.save and SeenDomains.save write, and what else a file at
\* that place can hold.
DomainsHeld ==
    {Absent, JNull, JNum(5), JStr(<<"a", "b">>), JList(<<JList(<<>>)>>)}
        \cup {JList(l) : l \in DomainLists}
IndexHeld == {Absent, JNull, JNum(0), JNum(2), JStr(<<"2">>)}
CountHeld == {Absent, JNum(1)}

FileContents ==
    {Missing, Unparseable}
        \cup {Parsed(v) : v \in {JNull, JNum(5), JStr(<<"a", "b">>), JList(<<>>)}}
        \cup {Parsed(JObject(d, q, n)) : d \in DomainsHeld, q \in IndexHeld, n \in CountHeld}

\* The content is what the class's own save writes.
WellFormed(p, file) ==
    /\ file.kind = "json"
    /\ file.value.t = "object"
    /\ IF p = "dedup"
       THEN file.value.domains \in {JList(l) : l \in DomainLists}
       ELSE file.value.query_index.t = "number" /\ file.value.total_discovered.t = "number"

\* No construction yet.
CInit ==
    /\ cpath = "state"
    /\ content = Missing
    /\ loaded = [ended |-> "none"]

\* Something puts a file at the place, or removes it.
WriteFile(p, file) ==
    /\ cpath' = p
    /\ content' = file
    /\ loaded' = [ended |-> "none"]
    /\ UNCHANGED <<dvars, svars, bvars, pvars, rvars>>

\* SeenDomains() or DorkState(), whichever owns the file.
Construct ==
    /\ loaded.ended = "none"
    /\ loaded' = IF cpath = "dedup" THEN SeenDomains_construct(content)
                                   ELSE DorkState_construct(content)
    /\ UNCHANGED <<dvars, svars, bvars, pvars, rvars, cpath, content>>


(***************************************************************************)
(* scrape_stores_batch (scraper.py lines 473-510)                          *)
(***************************************************************************)
MaxDomains == 2         \* longest domains argument tried

\* A loop body that stops collecting at a failed store.
Collect_until_failed(rs, r) ==
    IF \E k \in 1..Len(rs) : rs[k].scrape_status = "failed" THEN rs
    ELSE Append(rs, r)

\* Line 490: results.append(result)
Collect(rs, r) == Append(rs, r)

BInit ==
    /\ bpc = "idle"
    /\ bdomains = <<>>
    /\ bfallback = TRUE
    /\ bi = 0
    /\ bresults = <<>>
    /\ returned = <<>>

\* Lines 483-484: the call and its locals.
StartBatch(domains, fallback) ==
    /\ bpc \in {"idle", "returned"}
    /\ spc = "idle"
    /\ bpc' = "loop"
    /\ bdomains' = domains
    /\ bfallback' = fallback
    /\ bi' = 0
    /\ bresults' = <<>>
    /\ returned' = <<>>
    /\ UNCHANGED <<dvars, svars, cvars, pvars, rvars>>

\* Line 489: the loop calls scrape_store for the next domain.
BatchCall ==
    /\ bpc = "loop"
    /\ spc = "idle"
    /\ bi < Len(bdomains)
    /\ StartScrape(bdomains[bi + 1], bfallback)

\* Lines 489-490: scrape_store has returned; its result is appended.
BatchCollect ==
    /\ bpc = "loop"
    /\ spc = "done"
    /\ bresults' = Collect(bresults, result)
    /\ bi' = bi + 1
    /\ spc' = "idle"
    /\ UNCHANGED <<dvars, cvars, pvars, rvars, bpc, bdomains, bfallback, returned,
                   PLAYWRIGHT_ENABLED, domain, use_playwright_fallback,
                   attempt, homepage_html, all_html_parts, cj, best_emails,
                   best_whatsapp, playwright_urls, pj, result, calls>>

\* Lines 498-510: the loop is over; the summary is logged, results returned.
BatchReturn ==
    /\ bpc = "loop"
    /\ spc = "idle"
    /\ bi = Len(bdomains)
    /\ returned' = bresults
    /\ bpc' = "returned"
    /\ UNCHANGED <<dvars, svars, cvars, pvars, rvars, bdomains, bfallback, bi, bresults>>

(***************************************************************************)
(* Functions applied to arguments                                          *)
(***************************************************************************)
PInit ==
    /\ fname = ""
    /\ fin = <<>>
    /\ fout = <<>>

MaxPieces == 3          \* most pieces a text is made of

\* The texts made of at most n of the pieces, one after the other.
TextsOf(pieces, n) == {Flatten(ps) : ps \in SeqUpTo(pieces, n)}

\* Pieces of text with and without messaging signals.
WhatsAppPieces ==
    { <<"https://", "wa.me/", "27821234567">>,
      <<"api.", "whatsapp", ".com", "/send">>,
      <<"whatsapp", "-widget">>,
      <<"wati.io">>,
      <<"WhatsApp">>,
      <<"whatsapp">>,
      <<"Acme">>,
      <<" ">> }

\* The texts made of at most n of the pieces, one to a line.
LinesOf(pieces, n) == {Join(ps) : ps \in SeqUpTo(pieces, n)}

\* Addresses and look-alikes a page may carry.
EmailPieces ==
    { <<"owner", "@", "x", ".com">>,
      <<"Owner", "@", "x", ".com">>,
      <<"info", "@", "x", ".com">>,
      <<"info", "@", "gmail", ".com">>,
      <<"support", "@", "x", ".com">>,
      <<"admin", "@", "x", ".com">>,
      <<"real", "@", "store", ".co", ".za">>,
      <<"contact", "@", "x", ".com">>,
      <<"logo", "_100x", "@", "2x", ".png">>,
      <<"xxx", "@", "xxx", ".xxx">>,
      <<"noreply", "@", "store", ".com">> }

\* The call extract_emails(fin).
Apply_extract_emails ==
    /\ fname = ""
    /\ fname' = "extract_emails"
    /\ fout' = extract_emails(fin)
    /\ UNCHANGED <<dvars, svars, cvars, bvars, rvars, fin>>

\* Local parts are made of these atoms ("s", "hi", "pping" spell shipping),
\* and the part after the @ is one of these.
LocalAtoms == {"owner", "Owner", "admin", "sales", "s", "hi", "pping", "real"}
MailDomains == { <<"x", ".com">>, <<"owner", ".com">> }

\* The call _get_email_priority(fin).
Apply__get_email_priority ==
    /\ fname = ""
    /\ fname' = "_get_email_priority"
    /\ fout' = _get_email_priority(fin)
    /\ UNCHANGED <<dvars, svars, cvars, bvars, rvars, fin>>

\* The call detect_whatsapp(fin).
Apply_detect_whatsapp ==
    /\ fname = ""
    /\ fname' = "detect_whatsapp"
    /\ fout' = detect_whatsapp(fin)
    /\ UNCHANGED <<dvars, svars, cvars, bvars, rvars, fin>>


(***************************************************************************)
(* Lead rows and their order (output.py lines 90-133)                      *)
(***************************************************************************)
MaxRows == 3            \* longest list of rows sorted
DefaultLeadPriority == 99   \* the literal of lines 107, 110 and 112

\* Values a row holds for "email_priority": an int, a str, or no such key.
PyInt(n) == [t |-> "int", int |-> n]
PyStr(chars) == [t |-> "str", str |-> chars]

IsSpace(c) == c \in {" ", "\n"}
IsDigit(c) == c \in {"0", "1", "2", "3", "4", "5", "6", "7", "8", "9"}
DigitValue(c) ==
    CASE c = "0" -> 0 [] c = "1" -> 1 [] c = "2" -> 2 [] c = "3" -> 3
      [] c = "4" -> 4 [] c = "5" -> 5 [] c = "6" -> 6 [] c = "7" -> 7
      [] c = "8" -> 8 [] c = "9" -> 9

RECURSIVE Strip(_)
Strip(chars) ==
    IF chars # <<>> /\ IsSpace(Head(chars)) THEN Strip(Tail(chars))
    ELSE IF chars # <<>> /\ IsSpace(chars[Len(chars)])
         THEN Strip(SubSeq(chars, 1, Len(chars) - 1))
         ELSE chars

RECURSIVE Digits(_)
Digits(chars) ==
    IF chars = <<>> THEN 0
    ELSE 10 * Digits(SubSeq(chars, 1, Len(chars) - 1)) + DigitValue(chars[Len(chars)])

\* int(s) for a str s: blanks around, a sign, decimal digits; ValueError
\* for anything else.
ParseInt(chars) ==
    LET body == Strip(chars)
        signed == body # <<>> /\ Head(body) \in {"+", "-"}
        digits == IF signed THEN Tail(body) ELSE body
    IN  IF digits = <<>> \/ \E k \in 1..Len(digits) : ~IsDigit(digits[k])
        THEN [raised |-> "ValueError"]
        ELSE [raised |-> "",
              value |-> IF signed /\ Head(body) = "-" THEN 0 - Digits(digits)
                        ELSE Digits(digits)]

\* A value a row holds and that is not an int or a str: None, True, False.
PyNone == [t |-> "None"]
PyBoolean(b) == [t |-> "bool", bool |-> b]

\* bool(x), the test "if x" makes.
bool(x) ==
    CASE x.t = "None" -> FALSE
      [] x.t = "bool" -> x.bool
      [] x.t = "int" -> x.int # 0
      [] x.t = "str" -> x.str # <<>>

\* A coercion that counts a priority it cannot read as the best one.
CoercePriority_default_first(held) ==
    IF held = Absent THEN PyInt(0)
    ELSE IF held.t = "str"
    THEN IF ParseInt(held.str).raised = "" THEN PyInt(ParseInt(held.str).value)
         ELSE PyInt(0)
    ELSE held

\* Lines 107-113: row.get("email_priority", 99), and a str turned into an
\* int; a value that is no str stays as it is.
CoercePriority(held) ==
    IF held = Absent THEN PyInt(DefaultLeadPriority)
    ELSE IF held.t = "str"
    THEN IF held.str = <<>> THEN PyInt(DefaultLeadPriority)
         ELSE IF ParseInt(held.str).raised # "" THEN PyInt(DefaultLeadPriority)
         ELSE PyInt(ParseInt(held.str).value)
    ELSE held

\* A tier table that puts a verified email before a signal without email.
Tier_verified_first(has_wa, has_email, is_verified) ==
    IF has_wa /\ has_email /\ is_verified THEN 0
    ELSE IF has_wa /\ has_email THEN 1
    ELSE IF has_email /\ is_verified THEN 2
    ELSE IF has_wa THEN 3
    ELSE IF has_email THEN 4
    ELSE 5

\* Lines 115-126
Tier(has_wa, has_email, is_verified) ==
    IF has_wa /\ has_email /\ is_verified THEN 0
    ELSE IF has_wa /\ has_email THEN 1
    ELSE IF has_wa THEN 2
    ELSE IF has_email /\ is_verified THEN 3
    ELSE IF has_email THEN 4
    ELSE 5

\* A row is a dict: for each key the value held, Absent for a key the row
\* does not have.  The key is a tuple of an int and of what the row gives
\* for its priority and its domain.
_lead_sort_key(row) ==
    LET has_wa == bool(Get(row.has_whatsapp, PyBoolean(FALSE)))
        has_email == bool(Get(row.email, PyNone))
        is_verified == Get(row.email_verified, PyNone) = PyStr(<<"safe">>)
        email_priority == CoercePriority(row.email_priority)
    IN  <<PyInt(Tier(has_wa, has_email, is_verified)), email_priority,
          Get(row.domain, PyStr(<<>>))>>

\* s < t for two str: by the first character that differs, a proper
\* prefix first.  The characters here are "a" < "b".
RECURSIVE StrLess(_, _)
StrLess(s, t) ==
    IF t = <<>> THEN FALSE
    ELSE IF s = <<>> THEN TRUE
    ELSE IF Head(s) = Head(t) THEN StrLess(Tail(s), Tail(t))
    ELSE Head(s) = "a" /\ Head(t) = "b"

\* x < y for two values: defined between two int and between two str,
\* a TypeError otherwise.
ValueLess(x, y) ==
    IF x.t = "int" /\ y.t = "int" THEN [raised |-> "", less |-> x.int < y.int]
    ELSE IF x.t = "str" /\ y.t = "str" THEN [raised |-> "", less |-> StrLess(x.str, y.str)]
    ELSE [raised |-> "TypeError"]

\* k1 < k2 for two key tuples: the first position where they are not
\* equal decides, by < on the two values there.
KeyBefore(k1, k2) ==
    IF k1[1] # k2[1] THEN ValueLess(k1[1], k2[1])
    ELSE IF k1[2] # k2[2] THEN ValueLess(k1[2], k2[2])
    ELSE IF k1[3] # k2[3] THEN ValueLess(k1[3], k2[3])
    ELSE [raised |-> "", less |-> FALSE]

\* sorted() is stable: a row goes after every row whose key is not greater.
\* The first comparison that raises ends the sort; on lists of up to four
\* rows these are the comparisons at which CPython's list sort raises.
RECURSIVE InsertLead(_, _)
InsertLead(sorted, row) ==
    IF sorted.raised # "" THEN sorted
    ELSE IF sorted.value = <<>> THEN [raised |-> "", value |-> <<row>>]
    ELSE LET last == sorted.value[Len(sorted.value)]
             before == KeyBefore(_lead_sort_key(row), _lead_sort_key(last))
         IN  IF before.raised # "" THEN [raised |-> before.raised]
             ELSE IF ~before.less
             THEN [raised |-> "", value |-> Append(sorted.value, row)]
             ELSE LET rest == InsertLead([raised |-> "",
                                          value |-> SubSeq(sorted.value, 1, Len(sorted.value) - 1)],
                                         row)
                  IN  IF rest.raised # "" THEN rest
                      ELSE [raised |-> "", value |-> Append(rest.value, last)]

\* What sort_leads returns, or what it raises.
RECURSIVE sort_leads(_)
sort_leads(rows) ==
    IF rows = <<>> THEN [raised |-> "", value |-> <<>>]
    ELSE InsertLead(sort_leads(SubSeq(rows, 1, Len(rows) - 1)), rows[Len(rows)])

\* A row with every key, as merge_results and load_csv make it.
Row(wa, email, verified, priority, dom) ==
    [has_whatsapp |-> PyBoolean(wa), email |-> PyStr(email),
     email_verified |-> PyStr(IF verified = "" THEN <<>> ELSE <<verified>>),
     email_priority |-> priority, domain |-> PyStr(dom)]

\* Rows as merge_results and load_csv make them, and with priorities of
\* every kind.
LeadRows ==
    { Row(TRUE, <<"e">>, "safe", PyInt(3), <<"b">>),
      Row(TRUE, <<"e">>, "safe", PyStr(<<"1", "0">>), <<"a">>),
      Row(TRUE, <<"e">>, "", PyInt(1), <<"a">>),
      Row(TRUE, <<"e">>, "", PyStr(<<"3">>), <<"b">>),
      Row(TRUE, <<"e">>, "invalid", PyStr(<<"a", "b", "c">>), <<"a">>),
      Row(TRUE, <<"e">>, "", Absent, <<"b">>),
      Row(TRUE, <<>>, "", PyStr(<<>>), <<"a">>),
      Row(TRUE, <<>>, "safe", PyInt(1), <<"b">>),
      Row(FALSE, <<"e">>, "safe", PyInt(1), <<"a">>),
      Row(FALSE, <<"e">>, "safe", PyStr(<<" ", "3">>), <<"a", "b">>),
      Row(FALSE, <<"e">>, "safe", PyInt(3), <<"a">>),
      Row(FALSE, <<"e">>, "", PyInt(6), <<"a">>),
      Row(FALSE, <<"e">>, "", PyStr(<<"1", "0">>), <<"a">>),
      Row(FALSE, <<"e">>, "", PyStr(<<"3", ".", "5">>), <<"b">>),
      Row(FALSE, <<>>, "", PyStr(<<>>), <<"b">>),
      Row(FALSE, <<>>, "safe", Absent, <<"a">>) }

\* Rows that lack a key, or hold None or an empty str for it: the full
\* row, the row without any key, and the full row with one key taken
\* away, set to None, or set to "".
FullRow == Row(TRUE, <<"e">>, "safe", PyInt(1), <<"a">>)
RowKeys == {"has_whatsapp", "email", "email_verified", "email_priority", "domain"}
With(row, key, held) == [row EXCEPT ![key] = held]
AnyRows ==
    {FullRow, [k \in RowKeys |-> Absent]}
        \cup {With(FullRow, k, held) : k \in RowKeys, held \in {Absent, PyNone, PyStr(<<>>)}}

\* The call normalize_domain(fin).
Apply_normalize_domain ==
    /\ fname = ""
    /\ fname' = "normalize_domain"
    /\ fout' = normalize_domain(fin)
    /\ UNCHANGED <<dvars, svars, cvars, bvars, rvars, fin>>

\* The call sort_leads(fin).
Apply_sort_leads ==
    /\ fname = ""
    /\ fname' = "sort_leads"
    /\ fout' = sort_leads(fin)
    /\ UNCHANGED <<dvars, svars, cvars, bvars, rvars, fin>>

(***************************************************************************)
(* Joining scrape and verification outcomes (output.py lines 40-83)        *)
(***************************************************************************)
MaxOutcomes == 2        \* longest list of scrape or of verification outcomes

\* verify_results is None or a list.
PyList(items) == [t |-> "list", items |-> items]

\* VerifyResult(email=..., status=..., error=...)
VerifyResult(email, status, error) == [email |-> email, status |-> status, error |-> error]

\* Lines 52-56: the lookup by lowercased email; a later result for the
\* same key replaces an earlier one.  The empty function for None or [].
RECURSIVE verify_map(_)
verify_map(verify_results) ==
    IF verify_results = PyNone \/ verify_results = PyList(<<>>) THEN <<>>
    ELSE LET n == Len(verify_results.items)
             vr == verify_results.items[n]
             earlier == verify_map(PyList(SubSeq(verify_results.items, 1, n - 1)))
         IN  [key \in (DOMAIN earlier) \cup {Lower(vr.email)} |->
                IF key = Lower(vr.email) THEN vr ELSE earlier[key]]

\* Lines 59-81 for one scrape result: the row, with the keys that the
\* order of leads and the export read.
MergedRow(sr, map) ==
    LET email == IF sr.email # None THEN sr.email ELSE <<>>
        matched == sr.email # None /\ Lower(sr.email) \in DOMAIN map
    IN  [domain |-> PyStr(sr.domain),
         email |-> PyStr(email),
         email_priority |-> IF sr.email # None THEN PyInt(sr.email_priority)
                            ELSE PyStr(<<>>),
         has_whatsapp |-> PyBoolean(sr.has_whatsapp),
         email_verified |-> IF matched THEN PyStr(<<map[Lower(sr.email)].status>>)
                            ELSE PyStr(<<>>),
         scrape_status |-> sr.scrape_status]

merge_results(scrape_results, verify_results) ==
    [k \in 1..Len(scrape_results) |->
        MergedRow(scrape_results[k], verify_map(verify_results))]

\* Scrape results that differ in their email, and verification results
\* for these emails.
Scraped(email) ==
    [ScrapeResult(<<"a">>) EXCEPT !.email = email, !.email_priority = 1,
                                 !.scrape_status = "success"]
ScrapeOutcomes == {ScrapeResult(<<"a">>)} \cup {Scraped(e) : e \in {<<"owner">>, <<"Owner">>, <<"info">>}}
VerifyOutcomes ==
    {VerifyResult(e, st, "") : e \in {<<"owner">>, <<"Owner">>, <<"info">>},
                           st \in {"safe", "invalid", "unknown"}}

\* The call merge_results(fin.scrape_results, fin.verify_results).
Apply_merge_results ==
    /\ fname = ""
    /\ fname' = "merge_results"
    /\ fout' = merge_results(fin.scrape_results, fin.verify_results)
    /\ UNCHANGED <<dvars, svars, cvars, bvars, rvars, fin>>

\* An export that drops the failed scrapes only.
generate_csv_not_failed(scrape_results, verify_results) ==
    LET rows == merge_results(scrape_results, verify_results)
        kept == SelectSeq(rows, LAMBDA r : r.scrape_status # "failed")
    IN  sort_leads(kept)

\* Lines 159-166 of generate_csv: the rows written, or the exception of
\* the sort.
generate_csv(scrape_results, verify_results) ==
    LET rows == merge_results(scrape_results, verify_results)
        kept == SelectSeq(rows, LAMBDA r : r.scrape_status = "success")
    IN  sort_leads(kept)

\* Scrape outcomes of every status for two stores.
Outcome(d, status, email, wa) ==
    [ScrapeResult(d) EXCEPT
        !.scrape_status = status,
        !.error = IF status = "success" THEN ""
                  ELSE IF status = "failed" THEN "homepage_unreachable"
                  ELSE "not_shopify",
        !.email = email,
        !.email_priority = IF email = None THEN NoEmailPriority ELSE 1,
        !.has_whatsapp = wa,
        !.whatsapp_confidence = IF wa THEN "widget" ELSE "none"]

ExportOutcomes ==
    UNION {{Outcome(d, "success", <<"owner">>, FALSE), Outcome(d, "success", None, TRUE),
            Outcome(d, "failed", None, FALSE), Outcome(d, "skipped", None, FALSE)} :
           d \in {<<"a">>, <<"b">>}}

\* The call generate_csv(fin.scrape_results, fin.verify_results).
Apply_generate_csv ==
    /\ fname = ""
    /\ fname' = "generate_csv"
    /\ fout' = generate_csv(fin.scrape_results, fin.verify_results)
    /\ UNCHANGED <<dvars, svars, cvars, bvars, rvars, fin>>

(***************************************************************************)
(* The verifier (verifier.py)                                              *)
(***************************************************************************)
VERIFY_MAX_RETRIES == 2

\* What the service does with one request: HTTP 200 with a body whose
\* "is_reachable" is given, another HTTP status, or an exception of requests.
Http200(is_reachable) == [kind |-> "200", is_reachable |-> is_reachable]
Http500 == [kind |-> "500"]
ConnectionError == [kind |-> "ConnectionError"]
Timeout == [kind |-> "Timeout"]

\* HTTP 200 with a body that is not JSON.  What resp.json() raises for it
\* is the requests library's: its JSONDecodeError, a RequestException, as of
\* requests 2.27, and a ValueError before.
Http200Text(raises) == [kind |-> "200", json_raises |-> raises]

Responses == {Http200("safe"), Http200("invalid"), Http200("unknown"),
              Http500, ConnectionError, Timeout,
              Http200Text("RequestException"), Http200Text("ValueError")}

\* Lines 120-168, the status: is_reachable when it is one of the three.
_parse_reacher_response(email, data) ==
    VerifyResult(email,
                 IF data.is_reachable \in {"safe", "risky", "invalid"}
                 THEN data.is_reachable ELSE "unknown",
                 "")

\* Lines 74-114 after made attempts; service[k] is what the
\* k-th request of the call meets.  The result and the requests made.
RECURSIVE Attempts(_, _, _)
Attempts(email, service, made) ==
    IF made > VERIFY_MAX_RETRIES
    THEN [raised |-> "",
          result |-> VerifyResult(email, "unknown", "max_retries_exceeded"),
          requests |-> made]
    ELSE LET resp == service[made + 1]
         IN  IF resp.kind = "200" /\ "json_raises" \notin DOMAIN resp
             THEN [raised |-> "",
                   result |-> _parse_reacher_response(email, resp),
                   requests |-> made + 1]
             ELSE IF resp.kind = "200" /\ resp.json_raises # "RequestException"
             \* line 85: resp.json() raises what no except clause names
             THEN [raised |-> resp.json_raises, requests |-> made + 1]
             ELSE IF resp.kind = "ConnectionError"
             THEN [raised |-> "",
                   result |-> VerifyResult(email, "unknown", "reacher_unavailable"),
                   requests |-> made + 1]
             ELSE Attempts(email, service, made + 1)

verify_email(email, service) == Attempts(email, service, 0)

\* The call verify_email(fin.email), the service answering the k-th
\* request with fin.service[k].
Apply_verify_email ==
    /\ fname = ""
    /\ fname' = "verify_email"
    /\ fout' = verify_email(fin.email, fin.service)
    /\ UNCHANGED <<dvars, svars, cvars, bvars, rvars, fin>>

\* A probe that takes any HTTP answer for a sign of life.
_check_reacher_health_any_status(probe) == probe.kind \in {"200", "500"}

\* Lines 231-237: the probe is answered by probe.
_check_reacher_health(probe) == probe = Http200("")

RECURSIVE Repeat(_, _)
Repeat(x, n) == IF n = 0 THEN <<>> ELSE <<x>> \o Repeat(x, n - 1)

\* Lines 175-222: the results, the number of probes made and the emails
\* posted to the service, one entry for each request.
verify_emails_batch(emails, probe, service) ==
    IF emails = <<>> THEN [results |-> <<>>, probes |-> 0, posts |-> <<>>]
    ELSE IF ~_check_reacher_health(probe)
    THEN [results |-> [k \in 1..Len(emails) |->
                          VerifyResult(emails[k], "unknown", "reacher_unavailable")],
          probes |-> 1, posts |-> <<>>]
    ELSE [results |-> [k \in 1..Len(emails) |-> verify_email(emails[k], service).result],
          probes |-> 1,
          posts |-> Flatten([k \in 1..Len(emails) |->
                                Repeat(emails[k], verify_email(emails[k], service).requests)])]

(***************************************************************************)
(* The pipeline (main.py)                                                  *)
(***************************************************************************)
RECURSIVE FromKeys(_)
\* list(dict.fromkeys(s)): the first occurrence of each element, in order.
FromKeys(s) ==
    IF s = <<>> THEN <<>>
    ELSE LET before == FromKeys(SubSeq(s, 1, Len(s) - 1))
         IN  IF s[Len(s)] \in Range(before) THEN before
             ELSE Append(before, s[Len(s)])

\* Lines 105-130: the emails of the successful results, each once, handed
\* to verify_emails_batch.
step_verify(scrape_results, probe, service) ==
    LET with == SelectSeq(scrape_results,
                          LAMBDA r : r.email # None /\ r.scrape_status = "success")
        emails == [k \in 1..Len(with) |-> with[k].email]
    IN  IF emails = <<>> THEN [results |-> <<>>, probes |-> 0, posts |-> <<>>]
        ELSE verify_emails_batch(FromKeys(emails), probe, service)

\* Lines 239-256 on a stores file that can be read.
_load_unscraped_domains(stores) ==
    LET open == SelectSeq(stores, LAMBDA st : ~st.scraped)
    IN  [k \in 1..Len(open) |-> open[k].domain]

\* Lines 259-279
\* A variant that marks every entry of the file, whatever the domains.
_mark_domains_scraped_all(stores, domains) ==
    [k \in 1..Len(stores) |-> [stores[k] EXCEPT !.scraped = TRUE]]

_mark_domains_scraped(stores, domains) ==
    [k \in 1..Len(stores) |->
        IF stores[k].domain \in Range(domains)
        THEN [stores[k] EXCEPT !.scraped = TRUE] ELSE stores[k]]

\* What scrape_store can return for a domain, one of each kind.
OutcomesFor(d) ==
    { [ScrapeResult(d) EXCEPT !.email = <<"owner", "@">> \o d, !.email_priority = 1,
                              !.scrape_status = "success"],
      [ScrapeResult(d) EXCEPT !.has_whatsapp = TRUE,
                              !.whatsapp_confidence = "widget",
                              !.scrape_status = "success"],
      [ScrapeResult(d) EXCEPT !.scrape_status = "failed",
                              !.error = "homepage_unreachable"] }

\* The verification service as a run meets it: the answer to the probe
\* and the answers to the requests of a verify_email call.
Verifier(probe, service) == [probe |-> probe, service |-> service]
Verifiers ==
    { Verifier(Http200(""), <<Http200("safe"), Http200("safe"), Http200("safe")>>),
      Verifier(Http200(""), <<Http500, Timeout, Http200("unknown")>>),
      Verifier(Http200(""), <<Timeout, ConnectionError, Http200("safe")>>),
      Verifier(Http500, <<Http500, Http500, Http500>>),
      Verifier(Timeout, <<Timeout, Timeout, Timeout>>) }

RInit ==
    /\ ppc = "idle"
    /\ pargs = [domains |-> <<>>, dry_run |-> FALSE, skip_verify |-> FALSE]
    /\ pdomains = <<>>
    /\ pscrape = <<>>
    /\ pverify = PyNone
    /\ pprobes = <<>>
    /\ pposts = <<>>
    /\ pexport = [raised |-> "", value |-> <<>>]
    /\ psteps = <<>>
    /\ pret = ""

\* Lines 181-186: run_pipeline is called; with domains given, discovery is
\* left out.
PipelineStart(given, dry_run, skip_verify) ==
    /\ ppc = "idle"
    /\ Resting
    /\ spc \in {"idle", "done"}
    /\ pargs' = [domains |-> given, dry_run |-> dry_run, skip_verify |-> skip_verify]
    /\ pdomains' = given
    /\ ppc' = IF given # <<>> THEN "scrape" ELSE "discover"
    \* a new process: nothing of an earlier discover_stores call is in memory
    /\ dpc' = "idle"
    /\ state' = [query_index |-> 0, total_discovered |-> 0]
    /\ seen' = {}
    /\ all_queries' = <<>>
    /\ batch_size' = 0
    /\ batch_start' = 0
    /\ batch_end' = 0
    /\ batch_queries' = <<>>
    /\ i' = 0
    /\ new_domains' = <<>>
    /\ ret' = <<>>
    /\ exit' = ""
    /\ killed_at' = ""
    /\ p0' = 0
    /\ ledger0' = {}
    /\ searched' = <<>>
    /\ found' = {}
    /\ UNCHANGED <<svars, cvars, bvars, pvars, files, history, pscrape, pverify,
                   pprobes, pposts, pexport, psteps, pret>>

\* Lines 188-192 and 50-71: step_discover calls discover_stores.
PipelineDiscover ==
    /\ ppc = "discover"
    /\ dpc = "idle"
    /\ \E mq \in 0..MaxBatch : StartRun(mq, TRUE, pargs.dry_run)

\* Lines 193-200: discover_stores has returned.
PipelineDiscovered ==
    /\ ppc = "discover"
    /\ dpc = "done"
    /\ psteps' = Append(psteps, "discover")
    /\ LET found_or_open == IF ret # <<>> THEN ret
                            ELSE _load_unscraped_domains(storesFile)
       IN  IF pargs.dry_run \/ found_or_open = <<>>
           THEN ppc' = "returned" /\ pret' = "None" /\ UNCHANGED pdomains
           ELSE ppc' = "scrape" /\ pdomains' = found_or_open /\ UNCHANGED pret
    /\ UNCHANGED <<dvars, svars, cvars, bvars, pvars, pargs, pscrape, pverify,
                   pprobes, pposts, pexport>>

\* Lines 203-211 and 73-101: step_scrape; scrape_stores_batch returns one
\* result for each domain, and the domains are marked in the stores file.
PipelineScrape(results) ==
    /\ ppc = "scrape"
    /\ Len(results) = Len(pdomains)
    /\ \A k \in 1..Len(results) : results[k] \in OutcomesFor(pdomains[k])
    /\ pscrape' = results
    /\ storesFile' = _mark_domains_scraped(storesFile, pdomains)
    /\ psteps' = Append(psteps, "scrape")
    /\ IF results = <<>>
       THEN ppc' = "returned" /\ pret' = "None"
       ELSE ppc' = "verify" /\ UNCHANGED pret
    /\ UNCHANGED <<svars, cvars, bvars, pvars, stateFile, seenFile, history, dpc,
                   state, seen, all_queries, batch_size, batch_start, batch_end,
                   batch_queries, i, new_domains, ret, exit, killed_at, p0,
                   ledger0, searched, found, pargs, pdomains, pverify, pprobes,
                   pposts, pexport>>

\* Lines 213-218: step_verify, unless verification is skipped.
PipelineVerify(probe, service) ==
    /\ ppc = "verify"
    /\ IF pargs.skip_verify
       THEN UNCHANGED <<pverify, pprobes, pposts, psteps>>
       ELSE LET out == step_verify(pscrape, probe, service)
            IN  /\ pverify' = PyList(out.results)
                /\ pprobes' = Repeat(probe, out.probes)
                /\ pposts' = out.posts
                /\ psteps' = Append(psteps, "verify")
    /\ ppc' = "export"
    /\ UNCHANGED <<dvars, svars, cvars, bvars, pvars, pargs, pdomains, pscrape,
                   pexport, pret>>

\* Lines 220-228 and 132-151: step_export writes the lead list.
PipelineExport ==
    /\ ppc = "export"
    /\ pexport' = generate_csv(pscrape, pverify)
    /\ psteps' = Append(psteps, "export")
    /\ IF pexport'.raised = ""
       THEN ppc' = "returned" /\ pret' = "filepath"
       ELSE ppc' = "raised" /\ UNCHANGED pret
    /\ UNCHANGED <<dvars, svars, cvars, bvars, pvars, pargs, pdomains, pscrape,
                   pverify, pprobes, pposts>>

(***************************************************************************)
(* The SeenDomains object used by itself                                   *)
(***************************************************************************)
LedgerDomains ==
    { <<"shop", ".co.za">>, <<"sale", ".za">>, <<"shop", ".za">>,
      <<"sale", ".co.za">>, <<"www.", "shop", ".co.za">> }

\* SeenDomains(): a new object on the file.
LedgerNew ==
    /\ Resting
    /\ seen' = SeenDomains_load(seenFile)
    /\ UNCHANGED <<svars, xvars, files, history, dpc, state, all_queries, batch_size,
                   batch_start, batch_end, batch_queries, i, new_domains, ret,
                   exit, killed_at, p0, ledger0, searched, found>>

\* seen.add(dom)
LedgerAdd(dom) ==
    /\ Resting
    /\ seen' = add(seen, dom)
    /\ UNCHANGED <<svars, xvars, files, history, dpc, state, all_queries, batch_size,
                   batch_start, batch_end, batch_queries, i, new_domains, ret,
                   exit, killed_at, p0, ledger0, searched, found>>

\* seen.save()
LedgerSave ==
    /\ Resting
    /\ seenFile' = SeenDomains_save(seen)
    /\ UNCHANGED <<svars, xvars, stateFile, storesFile, history, dpc, state, seen,
                   all_queries, batch_size, batch_start, batch_end, batch_queries,
                   i, new_domains, ret, exit, killed_at, p0, ledger0, searched,
                   found>>

(***************************************************************************)
(* Specifications                                                          *)
(***************************************************************************)
XInit == CInit /\ BInit /\ PInit /\ RInit

Init == DInit /\ SInit /\ XInit

\* A run, dry or not, with the default query list.
Run == \E mq \in 0..MaxBatch, dry \in BOOLEAN : StartRun(mq, TRUE, dry)

\* The search backend answers the current query.
Search == \E urls \in SeqUpTo(Urls, MaxResults) : QueryStep(urls)

\* Runs that are left to complete, and resets between them.
Next ==
    \/ Run
    \/ Search
    \/ SaveState
    \/ SaveSeen
    \/ SaveStoresAndReturn
    \/ Reset

Spec == Init /\ [][Next]_vars

\* Runs that may be terminated from outside, with no reset.
NextInterrupt ==
    \/ Run
    \/ Search
    \/ SaveState
    \/ SaveSeen
    \/ SaveStoresAndReturn
    \/ Kill

SpecInterrupt == Init /\ [][NextInterrupt]_vars

\* Repeated runs with no reset and no termination.  A started batch runs to
\* its end (the code is sequential and every step returns), and the caller
\* keeps starting real runs.
Progress ==
    \/ \E mq \in 0..MaxBatch : StartRun(mq, TRUE, FALSE)
    \/ Search
    \/ SaveState
    \/ SaveSeen
    \/ SaveStoresAndReturn

NextRepeat == Run \/ Progress

SpecRepeat == Init /\ [][NextRepeat]_vars /\ WF_vars(Progress)

\* PLAYWRIGHT_ENABLED is a setting of config.py: either value.
InitScrape == DInit /\ XInit /\ SIdle /\ PLAYWRIGHT_ENABLED \in BOOLEAN

\* One store after another, the site and the browser answering as they like.
Scrape == \E d \in Domains, fallback \in BOOLEAN : StartScrape(d, fallback)
HomeAnswer == \E page \in HomePages : FetchHome(page)
ContactAnswer == \E page \in ContactPages : FetchContact(page)
RenderAnswer == \E page \in RenderedPages : Render(page)

NextScrape ==
    \/ Scrape
    \/ HomeAnswer
    \/ CheckHome
    \/ ContactAnswer
    \/ Extract
    \/ RenderAnswer
    \/ Build

SpecScrape == InitScrape /\ [][NextScrape]_vars

(***************************************************************************)
(* Properties of discover_stores                                           *)
(***************************************************************************)
N == Len(generate_dork_queries(TRUE))
Cursor == DorkState_load(stateFile).query_index
Ledger == SeenDomains_load(seenFile)
Completed == dpc = "done" /\ exit = "batch"

\* C1: a completed non-dry run with batch size B >= 1 that starts at the
\* persisted position p < N searches exactly the queries at indices
\* p .. min(p+B, N)-1, in order, and persists position min(p+B, N); no query
\* index is processed by two runs between resets.
C1_BatchRange ==
    /\ (Completed /\ batch_size >= 1) =>
          LET upto == IF p0 + batch_size < N THEN p0 + batch_size ELSE N
          IN  /\ p0 < N
              /\ searched = [k \in 1..(upto - p0) |-> all_queries[p0 + k]]
              /\ stateFile.kind = "json"
              /\ stateFile.query_index = upto
    /\ \A k \in QueryIndexes : processed[k] <= 1

\* C1 witness: a run resumed from a position p > 0 whose batch was clipped
\* at the end of the list and which found something.
C1_Witness ==
    /\ Completed
    /\ p0 > 0
    /\ p0 + batch_size > N
    /\ Len(searched) >= 2
    /\ new_domains # <<>>

\* C2: under repeated completed runs with no reset the cursor eventually
\* reaches N; whenever it is N every query index has been executed by some
\* run; and from then on it stays N and every run leaves as exhausted without
\* searching.
C2_EventuallyExhausted ==
    /\ <>(Cursor = N)
    /\ [](Cursor = N => \A k \in QueryIndexes : processed[k] >= 1)
    /\ [][Cursor = N => Cursor' = N]_vars
    /\ []((dpc = "done" /\ p0 >= N) => (exit = "exhausted" /\ searched = <<>> /\ ret = <<>>))

\* C2 witness: the cursor is at N, every index was executed, and a later run
\* found the list exhausted.
C2_Witness ==
    /\ Cursor = N
    /\ \A k \in QueryIndexes : processed[k] = 1
    /\ dpc = "done"
    /\ exit = "exhausted"
    /\ storesFile # <<>>

C4_NeverReturnedTwice ==
    /\ \A d \in Domains : returnedEver[d] <= 1
    /\ Completed =>
          \A k \in 1..Len(ret) :
              /\ ret[k] \notin ledger0
              /\ \A j \in 1..(k - 1) : ret[j] # ret[k]

\* C4 witness: after a reset, a run from position 0 found a domain again
\* that an earlier run had returned, and did not return it.
C4_Witness ==
    /\ Completed
    /\ p0 = 0
    /\ \E d \in found \cap ledger0 :
          /\ returnedEver[d] = 1
          /\ d \notin Range(ret)
    /\ ret # <<>>

(***************************************************************************)
(* Properties of scrape_store                                              *)
(***************************************************************************)
HomeCalls == SelectSeq(calls, LAMBDA c : c.via = "requests" /\ c.url.path = "")
ContactCalls == SelectSeq(calls, LAMBDA c : c.via = "requests" /\ c.url.path # "")
RendererCalls == SelectSeq(calls, LAMBDA c : c.via = "playwright")

\* The fetch returned nothing: None, or a body with no text.
Nothing(page) == page = NoPage \/ page = <<>>
AllNothing(cs) == \A k \in 1..Len(cs) : Nothing(cs[k].page)

\* What the fast path found, and the outcome it would give by itself.
FastEmails == extract_emails(Join(all_html_parts))
FastWhatsApp == detect_whatsapp(Join(all_html_parts))
FastOutcome ==
    BuildResult([ScrapeResult(domain) EXCEPT
                    !.store_name = _extract_store_name(homepage_html)],
                FastEmails, FastWhatsApp)
Signal(r) == <<r.has_whatsapp, r.whatsapp_confidence, r.whatsapp_phone>>
SignalOf(w) == <<w.found, w.confidence, w.phone>>

\* C5: when every home-page attempt returns nothing, all SCRAPE_MAX_RETRIES
\* attempts are made, the result is "failed" with homepage_unreachable, and
\* nothing but the home page is ever requested: no contact page, no renderer.
C5_HomeUnreachable ==
    (HomeCalls # <<>> /\ AllNothing(HomeCalls)) =>
        /\ calls = HomeCalls
        /\ Len(calls) <= SCRAPE_MAX_RETRIES
        /\ spc \in {"fetch_home", "check_home", "done"}
        /\ spc = "done" =>
              /\ Len(calls) = SCRAPE_MAX_RETRIES
              /\ result.scrape_status = "failed"
              /\ result.error = "homepage_unreachable"

\* C5 witness: three attempts, one answered by an empty body and one by
\* nothing at all, and the scrape ended as failed.
C5_Witness ==
    /\ spc = "done"
    /\ result.scrape_status = "failed"
    /\ Len(calls) = SCRAPE_MAX_RETRIES
    /\ \E k \in 1..Len(calls) : calls[k].page = <<>>
    /\ \E k \in 1..Len(calls) : calls[k].page = NoPage

\* C6: a fetched home page without a platform marker ends the scrape as
\* "skipped" with not_shopify, whatever gate marker it carries, and nothing
\* but the home page is ever requested.
C6_NotShopifySkipped ==
    (Truthy(homepage_html) /\ ~_is_shopify_store(homepage_html)) =>
        /\ calls = HomeCalls
        /\ spc \in {"check_home", "done"}
        /\ spc = "done" =>
              /\ result.scrape_status = "skipped"
              /\ result.error = "not_shopify"
              /\ result.email = None
              /\ ~result.has_whatsapp

\* C6 witness: the second attempt fetched a page with a gate marker and an
\* email but no platform marker, and the scrape ended as skipped.
C6_Witness ==
    /\ spc = "done"
    /\ result.scrape_status = "skipped"
    /\ result.error = "not_shopify"
    /\ Len(calls) = 2
    /\ _is_password_protected(homepage_html)
    /\ extract_emails(homepage_html) # <<>>

\* C7: a scrape whose home page was fetched, carries a platform marker and
\* is not gated ends as "success" whatever the contact pages and the
\* renderer return; it ends as "failed" only when every home-page attempt
\* returned nothing.
C7_SuccessAfterHome ==
    spc = "done" =>
        /\ (/\ Truthy(homepage_html)
            /\ _is_shopify_store(homepage_html)
            /\ ~_is_password_protected(homepage_html))
              => (result.scrape_status = "success" /\ result.error = "")
        /\ result.scrape_status = "failed" =>
              (Len(HomeCalls) = SCRAPE_MAX_RETRIES /\ AllNothing(HomeCalls))

\* C7 witness: every contact fetch and every renderer call failed, no email
\* and no messaging signal was found, and the scrape ended as success.
C7_Witness ==
    /\ spc = "done"
    /\ result.scrape_status = "success"
    /\ Len(ContactCalls) = Len(CONTACT_PAGE_PATHS)
    /\ AllNothing(ContactCalls)
    /\ RendererCalls # <<>>
    /\ AllNothing(RendererCalls)
    /\ result.email = None
    /\ ~result.has_whatsapp

\* C8: the renderer is called only when the fast path found no email
\* candidate, the caller allows the fallback and the configuration enables it.
C8_RendererOnlyAsFallback ==
    RendererCalls # <<>> =>
        /\ FastEmails = <<>>
        /\ use_playwright_fallback
        /\ PLAYWRIGHT_ENABLED
        /\ Len(ContactCalls) = Len(CONTACT_PAGE_PATHS)

\* C8 witness: the renderer was called and supplied the email of the result.
C8_Witness ==
    /\ spc = "done"
    /\ RendererCalls # <<>>
    /\ result.email # None

\* C9: when the fast path found no messaging signal, every rendered page
\* that was obtained and whose text carries a signal makes the outcome's
\* signal present and taken from rendered text, whether or not the page
\* also yields an email candidate.
C9_RenderedSignalTaken ==
    (spc = "done" /\ result.scrape_status = "success" /\ ~FastWhatsApp.found) =>
        \A k \in 1..Len(RendererCalls) :
            (Truthy(RendererCalls[k].page) /\ detect_whatsapp(RendererCalls[k].page).found) =>
                /\ result.has_whatsapp
                /\ \E j \in 1..Len(RendererCalls) :
                      /\ Truthy(RendererCalls[j].page)
                      /\ Signal(result) = SignalOf(detect_whatsapp(RendererCalls[j].page))

\* C10: when the fallback runs and every renderer call returns nothing, the
\* outcome is field for field the outcome of the fast path; and a signal the
\* fast path found is the signal of the outcome, whatever the renderer returns.
C10_FallbackKeepsFastPath ==
    (spc = "done" /\ result.scrape_status = "success") =>
        /\ (RendererCalls # <<>> /\ AllNothing(RendererCalls)) => result = FastOutcome
        /\ FastWhatsApp.found => Signal(result) = SignalOf(FastWhatsApp)

\* C10 witness: both renderer calls failed after a fast path that found a
\* messaging signal and a store name.
C10_Witness ==
    /\ spc = "done"
    /\ Len(RendererCalls) = 2
    /\ AllNothing(RendererCalls)
    /\ result.has_whatsapp

(***************************************************************************)
(* The cursor under every operation that touches it                        *)
(***************************************************************************)
\* The cursor is kept within MaxSteps of the ends of the query list.
InReach(q) == q >= 0 - MaxSteps /\ q <= N + MaxSteps

\* No batch has moved the cursor since the last reset.
Fresh == \A k \in QueryIndexes : processed[k] = 0

\* A run with a batch size of either sign (0 stands for None), started from
\* whatever cursor the object operations and the reset left in the file.
\* One batch between two resets: what a run does to the cursor depends on
\* the cursor it reads and on its batch size only.
RunAny ==
    \E mq \in (0 - MaxSteps)..MaxSteps :
        /\ Fresh
        /\ InReach(DorkState_load(stateFile).query_index + mq)
        /\ StartRun(mq, TRUE, FALSE)

Advance ==
    \E steps \in (0 - MaxSteps)..MaxSteps :
        /\ InReach(state.query_index + steps)
        /\ CursorAdvance(steps)

\* The search finds nothing: what it finds does not bear on the cursor.
SearchNothing == QueryStep(<<>>)

NextCursor ==
    \/ RunAny
    \/ SearchNothing
    \/ SaveState
    \/ SaveSeen
    \/ SaveStoresAndReturn
    \/ CursorLoad
    \/ Advance
    \/ CursorSave
    \/ Reset

SpecCursor == Init /\ [][NextCursor]_vars

\* C11: no operation but reset lowers the cursor: every step that is not
\* the reset leaves the persisted query_index and the query_index of the
\* object at least where they were, except that constructing a new object
\* reads the persisted one.
C11_CursorOnlyIncreases ==
    [][\/ Reset
       \/ /\ Cursor' >= Cursor
          /\ \/ state'.query_index >= state.query_index
             \/ state' = DorkState_load(stateFile)]_vars

(***************************************************************************)
(* What the caller of discover_stores gets                                 *)
(***************************************************************************)
\* Line 354: a run that executed its batch returns its new_domains list.
ReturnOfBatch(nd) == nd

\* C12: the caller, who gets the returned value, can tell a run that found
\* the cursor exhausted from a run that executed its batch and found no new
\* domain: the exhausted run does not return what such a batch returns.
C12_ExhaustedDistinguishable ==
    (dpc = "done" /\ exit = "exhausted") => ret # ReturnOfBatch(<<>>)

\* A call of discover_stores with any arguments.
AnyStart ==
    \E mq \in (0 - MaxBatch)..MaxBatch, niche \in BOOLEAN, dry \in BOOLEAN :
        StartRun(mq, niche, dry)

\* C13: a run that finds position >= len(queries) is a no-op: the call
\* returns at once (the query loop is never entered, so no search is
\* executed), and the state file, the ledger file and the discovered-stores
\* file are exactly what they were.
C13_ExhaustedNoOp ==
    [][(AnyStart /\ Cursor >= Len(all_queries'))
          => /\ files' = files
             /\ dpc' = "done"
             /\ exit' = "exhausted"
             /\ searched' = <<>>
             /\ ret' = <<>>]_vars

\* C13 witness: an exhausted run has returned, with a cursor, a ledger and
\* a stores file on disk that earlier batches wrote.
C13_Witness ==
    /\ dpc = "done"
    /\ exit = "exhausted"
    /\ batch_size = 1
    /\ Cursor = N
    /\ Ledger # {}
    /\ storesFile # <<>>

(***************************************************************************)
(* Constructing the cursor and the ledger                                  *)
(***************************************************************************)
Place == \E p \in {"state", "dedup"}, file \in FileContents : WriteFile(p, file)

NextConstruct == Place \/ Construct

SpecConstruct == Init /\ [][NextConstruct]_vars

\* C14: constructing the ledger or the cursor never raises; from a missing
\* file, and from a file that holds anything but what save writes, it gives
\* the empty ledger, respectively position 0.
C14_ConstructNeverRaises ==
    loaded.ended # "none" =>
        /\ loaded.ended = "ok"
        /\ ~WellFormed(cpath, content) =>
              IF cpath = "dedup" THEN loaded.domains = {}
                                 ELSE loaded.query_index = JNum(0)

(***************************************************************************)
(* Batches of stores                                                       *)
(***************************************************************************)
Batch ==
    \E domains \in SeqUpTo(Domains, MaxDomains), fallback \in BOOLEAN :
        StartBatch(domains, fallback)

\* The answers of one site and of the browser, a failure among them.
BatchHomeAnswer ==
    \E page \in {NoPage, <<"password-page", " ", "info", "@", "gmail", ".com">>,
                 <<"Shopify", ".theme", " ", "WhatsApp">>} : FetchHome(page)
BatchContactAnswer ==
    \E page \in {NoPage, <<"mailto:", "Owner", "@", "store", ".co", ".za">>} :
        FetchContact(page)
BatchRenderAnswer == \E page \in {NoPage, <<"Acme">>} : Render(page)

NextBatch ==
    \/ Batch
    \/ BatchCall
    \/ BatchHomeAnswer
    \/ CheckHome
    \/ BatchContactAnswer
    \/ Extract
    \/ BatchRenderAnswer
    \/ Build
    \/ BatchCollect
    \/ BatchReturn

SpecBatch == Init /\ [][NextBatch]_vars

Typed(r) == r.scrape_status \in {"success", "failed", "skipped"}

\* C15: the batch returns one outcome per input domain, in input order,
\* each with status success, failed or skipped; while the loop runs, the
\* results so far are the outcomes of the domains before the loop index.
C15_OneOutcomePerDomain ==
    /\ bpc = "loop" =>
          /\ bi <= Len(bdomains)
          /\ Len(bresults) = bi
          /\ \A k \in 1..Len(bresults) :
                bresults[k].domain = bdomains[k] /\ Typed(bresults[k])
    /\ bpc = "returned" =>
          /\ Len(returned) = Len(bdomains)
          /\ \A k \in 1..Len(returned) :
                returned[k].domain = bdomains[k] /\ Typed(returned[k])

\* C15 witness: the first store failed (home page unreachable) and the
\* second was scraped all the same.
C15_Witness ==
    /\ bpc = "returned"
    /\ Len(returned) = 2
    /\ returned[1].scrape_status = "failed"
    /\ returned[2].scrape_status = "success"
    /\ returned[2].email # None

(***************************************************************************)
(* detect_whatsapp on texts                                                *)
(***************************************************************************)
\* Any text of the pieces is the argument.
InitWhatsApp ==
    /\ DInit /\ SInit /\ CInit /\ BInit /\ RInit
    /\ fname = ""
    /\ fin \in TextsOf(WhatsAppPieces, MaxPieces)
    /\ fout = <<>>

NextWhatsApp == Apply_detect_whatsapp

SpecWhatsApp == InitWhatsApp /\ [][NextWhatsApp]_vars

\* C16: detect_whatsapp classifies by strict precedence: "definitive" if a
\* definitive link pattern occurs, else "widget" if a widget marker occurs,
\* else "maybe" if the keyword occurs, else "none" with found = FALSE; found
\* is TRUE in the first three cases.
C16_WhatsAppPrecedence ==
    fname = "detect_whatsapp" =>
        LET text == Lower(fin)
            definitive == AnyPattern(text, WHATSAPP_DEFINITIVE_PATTERNS)
            widget == AnyPattern(text, WHATSAPP_WIDGET_PATTERNS)
            keyword == AnyPattern(text, WHATSAPP_WEAK_PATTERNS)
        IN  /\ definitive => fout.confidence = "definitive"
            /\ (~definitive /\ widget) => fout.confidence = "widget"
            /\ (~definitive /\ ~widget /\ keyword) => fout.confidence = "maybe"
            /\ (~definitive /\ ~widget /\ ~keyword) => fout.confidence = "none"
            /\ fout.found = (fout.confidence # "none")
            /\ fout.confidence \in {"definitive", "widget", "maybe", "none"}

\* C16 witness: a text with a widget marker followed by a definitive link
\* is classified as definitive.
C16_Witness ==
    /\ fname = "detect_whatsapp"
    /\ fin = <<"whatsapp", "-widget", "https://", "wa.me/", "27821234567">>
    /\ fout.confidence = "definitive"
    /\ fout.found

(***************************************************************************)
(* extract_emails on texts                                                 *)
(***************************************************************************)
\* Any text of the pieces is the argument.
InitEmails ==
    /\ DInit /\ SInit /\ CInit /\ BInit /\ RInit
    /\ fname = ""
    /\ fin \in LinesOf(EmailPieces, MaxPieces)
    /\ fout = <<>>

NextEmails == Apply_extract_emails

SpecEmails == InitEmails /\ [][NextEmails]_vars

\* The addresses EMAIL_REGEX matches in the text, in lower case.
Matched(text) == {Lower(m) : m \in Range(FindEmails(text, 1))}

OwnerX == <<"owner", "@", "x", ".com">>
InfoX == <<"info", "@", "x", ".com">>
SupportX == <<"support", "@", "x", ".com">>

\* C17: the candidates of extract_emails are in ascending order of
\* (priority, is_free_provider), a non-free address before a free one of the
\* same priority; for a text whose addresses are owner@x.com, info@x.com and
\* support@x.com, in any order, the first is owner@x.com and the last
\* support@x.com.
C17_EmailsSorted ==
    fname = "extract_emails" =>
        /\ \A k \in 1..(Len(fout) - 1) :
              \/ fout[k].priority < fout[k + 1].priority
              \/ /\ fout[k].priority = fout[k + 1].priority
                 /\ fout[k].is_free_provider => fout[k + 1].is_free_provider
        /\ Matched(fin) = {OwnerX, InfoX, SupportX} =>
              /\ Len(fout) = 3
              /\ fout[1].email = OwnerX
              /\ fout[3].email = SupportX

\* C17 witness: support, info at a free provider and info came in that
\* order; info comes out first, the free provider's info next, support last.
C17_Witness ==
    /\ fname = "extract_emails"
    /\ fin = Join(<<SupportX, <<"info", "@", "gmail", ".com">>, InfoX>>)
    /\ Len(fout) = 3
    /\ fout[1].email = InfoX
    /\ fout[2].is_free_provider
    /\ fout[3].email = SupportX

LogoPng == <<"logo", "_100x", "@", "2x", ".png">>
Placeholder == <<"xxx", "@", "xxx", ".xxx">>
RealStore == <<"real", "@", "store", ".co", ".za">>

\* The look-alikes among the pieces: an asset file with a resizing suffix,
\* a placeholder address, an address with a configured junk substring.
JunkPieces == {LogoPng, Placeholder, <<"noreply", "@", "store", ".com">>}

\* C18: extract_emails drops every junk candidate and keeps every other
\* matched address, once each; a text with only logo_100x@2x.png and
\* xxx@xxx.xxx gives no candidate, and with real@store.co.za added it gives
\* exactly real@store.co.za.
C18_JunkDiscarded ==
    fname = "extract_emails" =>
        /\ {fout[k].email : k \in 1..Len(fout)} = Matched(fin) \ JunkPieces
        /\ Len(fout) = Cardinality(Matched(fin) \ JunkPieces)
        /\ Matched(fin) = {LogoPng, Placeholder} => fout = <<>>
        /\ Matched(fin) = {LogoPng, Placeholder, RealStore} =>
              (Len(fout) = 1 /\ fout[1].email = RealStore)

\* C18 witness: the asset file, the placeholder and the real address, in
\* that order, give the real address alone.
C18_Witness ==
    /\ fname = "extract_emails"
    /\ fin = Join(<<LogoPng, Placeholder, RealStore>>)
    /\ Len(fout) = 1
    /\ fout[1].email = RealStore

(***************************************************************************)
(* sort_leads on lists of rows                                             *)
(***************************************************************************)
\* Any list of the rows is the argument.
InitLeads ==
    /\ DInit /\ SInit /\ CInit /\ BInit /\ RInit
    /\ fname = ""
    /\ fin \in SeqUpTo(LeadRows, MaxRows)
    /\ fout = <<>>

NextLeads == Apply_sort_leads

SpecLeads == InitLeads /\ [][NextLeads]_vars

\* The tier of a row, as the table lists them.
ListedTier(row) ==
    LET signal == row.has_whatsapp = PyBoolean(TRUE)
        email == row.email \notin {Absent, PyNone, PyStr(<<>>)}
        safe == row.email_verified = PyStr(<<"safe">>)
    IN  CASE signal /\ email /\ safe -> 0
          [] signal /\ email /\ ~safe -> 1
          [] signal /\ ~email -> 2
          [] ~signal /\ email /\ safe -> 3
          [] ~signal /\ email /\ ~safe -> 4
          [] ~signal /\ ~email -> 5

\* The same rows come out, each as often as it went in.
SameRows(a, b) ==
    /\ Len(a) = Len(b)
    /\ \A r \in Range(a) \cup Range(b) : Count(a, r) = Count(b, r)

ListedPriority(row) ==
    LET held == row.email_priority
    IN  CASE held = Absent -> 99
          [] held = PyInt(1) -> 1
          [] held = PyInt(3) -> 3
          [] held = PyInt(6) -> 6
          [] held = PyStr(<<"3">>) -> 3
          [] held = PyStr(<<" ", "3">>) -> 3
          [] held = PyStr(<<"1", "0">>) -> 10
          [] held = PyStr(<<>>) -> 99
          [] held = PyStr(<<"a", "b", "c">>) -> 99
          [] held = PyStr(<<"3", ".", "5">>) -> 99

\* C20: among rows of one tier, sort_leads puts a row of a smaller priority
\* (compared as integers, a str priority coerced, 99 for an empty,
\* non-numeric or absent one) first, and of rows equal in tier and priority
\* the one whose domain is the smaller string first.
C20_PriorityThenDomain ==
    fname = "sort_leads" =>
        /\ fout.raised = ""
        /\ \A j, k \in 1..Len(fout.value) :
              (j < k /\ ListedTier(fout.value[j]) = ListedTier(fout.value[k])) =>
                  /\ ListedPriority(fout.value[j]) <= ListedPriority(fout.value[k])
                  /\ ListedPriority(fout.value[j]) = ListedPriority(fout.value[k])
                         => ~StrLess(fout.value[k].domain.str, fout.value[j].domain.str)

\* C20 witness: three rows of tier 1 went in as: priority missing and
\* domain "b", priority "abc" and domain "a", priority "3" and domain "b";
\* they came out as "3", then "abc", then the missing one.
C20_Witness ==
    /\ fname = "sort_leads"
    /\ fin = << Row(TRUE, <<"e">>, "", Absent, <<"b">>),
                Row(TRUE, <<"e">>, "invalid", PyStr(<<"a", "b", "c">>), <<"a">>),
                Row(TRUE, <<"e">>, "", PyStr(<<"3">>), <<"b">>) >>
    /\ fout = [raised |-> "", value |-> << fin[3], fin[2], fin[1] >>]

(***************************************************************************)
(* sort_leads on rows that lack keys or hold empty values                  *)
(***************************************************************************)
InitAnyLeads ==
    /\ DInit /\ SInit /\ CInit /\ BInit /\ RInit
    /\ fname = ""
    /\ fin \in SeqUpTo(AnyRows, MaxRows)
    /\ fout = <<>>

SpecAnyLeads == InitAnyLeads /\ [][NextLeads]_vars

\* C21: sort_leads raises for no list of rows, whichever keys the rows lack
\* and whichever of their values are empty: it returns the same rows, a row
\* of a lower tier first, a missing or empty value counted as the worse one.
C21_SortNeverFails ==
    fname = "sort_leads" =>
        /\ fout.raised = ""
        /\ SameRows(fin, fout.value)
        /\ \A j, k \in 1..Len(fout.value) :
              ListedTier(fout.value[j]) < ListedTier(fout.value[k]) => j < k

(***************************************************************************)
(* merge_results on lists of outcomes                                      *)
(***************************************************************************)
InitMerge ==
    /\ DInit /\ SInit /\ CInit /\ BInit /\ RInit
    /\ fname = ""
    /\ fin \in [scrape_results : SeqUpTo(ScrapeOutcomes, MaxOutcomes),
                verify_results : {PyNone} \cup {PyList(vs) : vs \in SeqUpTo(VerifyOutcomes, MaxOutcomes)}]
    /\ fout = <<>>

NextMerge == Apply_merge_results

SpecMerge == InitMerge /\ [][NextMerge]_vars

\* The verification outcomes of a call whose lowercased email is that of
\* the scrape outcome sr, by position.
MatchesOf(sr) ==
    IF fin.verify_results = PyNone \/ sr.email = None THEN {}
    ELSE {j \in 1..Len(fin.verify_results.items) :
            Lower(fin.verify_results.items[j].email) = Lower(sr.email)}

\* C22: the verification state of a row is the status of the outcome that
\* matches its lowercased email, and it is empty, and never "unknown", when
\* the row has no email, nothing was verified, no outcome matches, or the
\* matching outcome is not safe, risky or invalid.
C22_VerificationState ==
    fname = "merge_results" =>
        \A k \in 1..Len(fout) :
            LET sr == fin.scrape_results[k]
                matches == MatchesOf(sr)
                settled == {fin.verify_results.items[j].status : j \in matches}
                          \cap {"safe", "risky", "invalid"}
            IN  /\ fout[k].email_verified # PyStr(<<"unknown">>)
                /\ settled = {} => fout[k].email_verified = PyStr(<<>>)
                /\ settled # {} => \E st \in settled : fout[k].email_verified = PyStr(<<st>>)

(***************************************************************************)
(* Discovery runs, then one pipeline run                                   *)
(***************************************************************************)
AllOutcomes == UNION {OutcomesFor(d) : d \in Domains}

Pipeline ==
    \E given \in SeqUpTo(Domains, MaxDomains), dry_run \in BOOLEAN, skip_verify \in BOOLEAN :
        PipelineStart(given, dry_run, skip_verify)

\* discover_stores run by itself (python discovery.py), before the pipeline.
RunAlone == ppc = "idle" /\ Fresh /\ \E mq \in 0..MaxBatch : StartRun(mq, TRUE, FALSE)

NextPipeline ==
    \/ RunAlone
    \/ Pipeline
    \/ PipelineDiscover
    \/ Search
    \/ SaveState
    \/ SaveSeen
    \/ SaveStoresAndReturn
    \/ PipelineDiscovered
    \/ \E results \in [1..Len(pdomains) -> AllOutcomes] : PipelineScrape(results)
    \/ \E v \in Verifiers : PipelineVerify(v.probe, v.service)
    \/ PipelineExport

SpecPipeline == Init /\ [][NextPipeline]_vars

\* The emails step_verify hands to the verifier in the current run.
EmailsToVerify ==
    LET with == SelectSeq(pscrape, LAMBDA r : r.email # None /\ r.scrape_status = "success")
    IN  FromKeys([k \in 1..Len(with) |-> with[k].email])

ProbeFailed == pprobes # <<>> /\ pprobes[1] # Http200("")

\* C23: when the liveness probe has failed, no email was posted to the
\* service, the results are one "unknown" for each email handed in, in the
\* same order, and the pipeline goes on to the export and returns its file.
C23_ProbeFailure ==
    (ppc \in {"export", "returned", "raised"} /\ ProbeFailed) =>
        /\ pposts = <<>>
        /\ Len(pverify.items) = Len(EmailsToVerify)
        /\ \A k \in 1..Len(EmailsToVerify) :
              /\ pverify.items[k].email = EmailsToVerify[k]
              /\ pverify.items[k].status = "unknown"
        /\ ppc # "raised"
        /\ ppc = "returned" => pret = "filepath" /\ psteps[Len(psteps)] = "export"

\* C23 witness: two emails were to be verified, the probe timed out, and
\* the run has exported.
C23_Witness ==
    /\ ppc = "returned"
    /\ pprobes = <<Timeout>>
    /\ Len(EmailsToVerify) = 2
    /\ pret = "filepath"

(***************************************************************************)
(* normalize_domain on URL texts                                           *)
(***************************************************************************)
MaxUrlAtoms == 4        \* longest URL text after the scheme, in atoms

\* URL texts: None or "", and texts with or without a scheme.
UrlAtoms == {"www.", "WWW.", "shop", "Sale", ".co.za", ".", "/", ":"}
UrlTexts ==
    {scheme \o body : scheme \in {<<>>, <<"https://">>, <<"http://">>},
                      body \in SeqUpTo(UrlAtoms, MaxUrlAtoms)}

InitNormalize ==
    /\ DInit /\ SInit /\ CInit /\ BInit /\ RInit
    /\ fname = ""
    /\ fin \in UrlTexts
    /\ fout = <<>>

NextNormalize == Apply_normalize_domain

SpecNormalize == InitNormalize /\ [][NextNormalize]_vars

\* The host of a URL text: what stands between the scheme, if there is
\* one, and the first ":" or "/".
HostOf(url) ==
    UpTo(IF url # <<>> /\ Head(url) \in {"https://", "http://"} THEN Tail(url) ELSE url,
         {":", "/"})

\* C24: for a URL whose host starts with www. (in either case) the value
\* returned does not start with www. and is in lower case; for an input that
\* is empty or None, or has no scheme and no dot, nothing is returned.
C24_NormalizeStripsWww ==
    fname = "normalize_domain" =>
        /\ (HostOf(fin) # <<>> /\ Head(HostOf(fin)) \in {"www.", "WWW."} /\ fout # None)
              => Head(fout) # "www." /\ Lower(fout) = fout
        /\ (fin = None \/ (fin = HostOf(fin) /\ \A k \in 1..Len(fin) : ~HasDot(fin[k])))
              => fout = None

(***************************************************************************)
(* The ledger: objects made, domains added, saves                          *)
(***************************************************************************)
NextLedger ==
    \/ LedgerNew
    \/ \E dom \in LedgerDomains : LedgerAdd(dom)
    \/ LedgerSave

SpecLedger == Init /\ [][NextLedger]_vars

\* C25: a save writes a file from which a new SeenDomains has the
\* membership and the size of the object saved; the count written is that
\* size.
C25_LedgerRoundTrip ==
    [][LedgerSave =>
          /\ SeenDomains_load(seenFile') = seen
          /\ Cardinality(SeenDomains_load(seenFile')) = Cardinality(seen)
          /\ seenFile'.value.count = JNum(Cardinality(seen))]_vars

\* C25 witness: three domains were added, one of them twice over a save,
\* and the file written gives these three back.
C25_Witness ==
    /\ Cardinality(seen) = 3
    /\ seenFile # Missing
    /\ SeenDomains_load(seenFile) = seen
    /\ seenFile.value.domains.items[1] = JStr(<<"sale", ".za">>)

\* C26: adding a domain that is in the ledger changes neither its members
\* nor its size; a domain that has been added is not new, and stays not new
\* as long as the object lives.
C26_AddIdempotent ==
    [][/\ \A dom \in LedgerDomains :
            LedgerAdd(dom) =>
                /\ ~is_new(seen', dom)
                /\ dom \in seen => seen' = seen /\ Cardinality(seen') = Cardinality(seen)
       /\ ~LedgerNew => \A dom \in seen : ~is_new(seen', dom)]_vars

\* C26 witness: the ledger holds two domains, both also in the file, so
\* that adding either again is adding a domain already there.
C26_Witness ==
    /\ Cardinality(seen) = 2
    /\ seenFile # Missing
    /\ SeenDomains_load(seenFile) = seen

\* C27: in every state the cursor can reach by object constructions,
\* advances, resets, saves and batch runs, the position and the total are
\* not negative, in the object and in the file.
C27_CursorNonNegative ==
    /\ state.query_index >= 0
    /\ state.total_discovered >= 0
    /\ DorkState_load(stateFile).query_index >= 0
    /\ DorkState_load(stateFile).total_discovered >= 0

(***************************************************************************)
(* save() step by step: open(filepath, "w") empties the file, json.dump    *)
(* fills the buffer, leaving the with block writes it out                  *)
(***************************************************************************)
\* What a load finds in a file that was opened for writing and not closed:
\* nothing, or the start of the text; json.load rejects both.
Truncated == Unparseable

\* Lines 342-343 and DorkState.save up to line 168: the cursor is advanced
\* and the state file is opened for writing.
OpenState ==
    /\ dpc = "loop"
    /\ i = Len(batch_queries)
    /\ state' = [query_index |-> CursorAfterBatch(state, batch_end),
                 total_discovered |-> state.total_discovered + Len(new_domains)]
    /\ stateFile' = Truncated
    /\ dpc' = "write_state"
    /\ UNCHANGED <<svars, xvars, seenFile, storesFile, history, seen, all_queries,
                   batch_size, batch_start, batch_end, batch_queries, i,
                   new_domains, ret, exit, killed_at, p0, ledger0, searched,
                   found>>

\* DorkState.save, lines 169-173: the text is written and the file closed.
WriteState ==
    /\ dpc = "write_state"
    /\ stateFile' = DorkState_save(state)
    /\ dpc' = "save_seen"
    /\ processed' = [k \in DOMAIN processed |->
                        IF k < Len(all_queries)
                        THEN Min(Cap, processed[k] + Count(searched, all_queries[k + 1]))
                        ELSE processed[k]]
    /\ indexed' = all_queries
    /\ UNCHANGED <<svars, xvars, seenFile, storesFile, returnedEver, state, seen,
                   all_queries, batch_size, batch_start, batch_end, batch_queries,
                   i, new_domains, ret, exit, killed_at, p0, ledger0, searched,
                   found>>

\* SeenDomains.save up to line 120: the ledger file is opened for writing.
OpenSeen ==
    /\ dpc = "save_seen"
    /\ seenFile' = Truncated
    /\ dpc' = "write_seen"
    /\ UNCHANGED <<svars, xvars, stateFile, storesFile, history, state, seen,
                   all_queries, batch_size, batch_start, batch_end, batch_queries,
                   i, new_domains, ret, exit, killed_at, p0, ledger0, searched,
                   found>>

\* SeenDomains.save, lines 121-122: the text is written and the file closed.
WriteSeen ==
    /\ dpc = "write_seen"
    /\ seenFile' = SeenDomains_save(seen)
    /\ dpc' = "save_stores"
    /\ UNCHANGED <<svars, xvars, stateFile, storesFile, history, state, seen,
                   all_queries, batch_size, batch_start, batch_end, batch_queries,
                   i, new_domains, ret, exit, killed_at, p0, ledger0, searched,
                   found>>

\* The process is terminated inside a save.
KillInSave ==
    /\ dpc \in {"write_state", "write_seen"}
    /\ killed_at' = dpc
    /\ dpc' = "killed"
    /\ UNCHANGED <<svars, xvars, files, history, state, seen, all_queries, batch_size,
                   batch_start, batch_end, batch_queries, i, new_domains, ret,
                   exit, p0, ledger0, searched, found>>

\* Runs are started until one has written its cursor.
RunUntilWritten == Fresh /\ \E mq \in 0..MaxBatch : StartRun(mq, TRUE, FALSE)

NextWrite ==
    \/ RunUntilWritten
    \/ Search
    \/ OpenState
    \/ WriteState
    \/ OpenSeen
    \/ WriteSeen
    \/ SaveStoresAndReturn
    \/ Kill
    \/ KillInSave

SpecWrite == Init /\ [][NextWrite]_vars

\* C28: the cursor file and the ledger file are rewritten atomically: every
\* step leaves each of them holding what it held or the whole of what its
\* object saves, so that at no point of a save a termination leaves a file
\* that holds neither.
C28_AtomicRewrite ==
    [][/\ stateFile' \in {stateFile, DorkState_save(state')}
       /\ seenFile' \in {seenFile, SeenDomains_save(seen')}]_vars

\* C29: a fetched home page that carries a platform marker and a gate
\* marker ends the scrape as "skipped" with password_protected; no contact
\* page is requested and the renderer is not called.
C29_PasswordProtectedSkipped ==
    (/\ Truthy(homepage_html)
     /\ _is_shopify_store(homepage_html)
     /\ _is_password_protected(homepage_html)) =>
        /\ ContactCalls = <<>>
        /\ RendererCalls = <<>>
        /\ spc \in {"check_home", "done"}
        /\ spc = "done" =>
              /\ result.scrape_status = "skipped"
              /\ result.error = "password_protected"

\* C29 witness: with the renderer enabled and asked for, the third attempt
\* fetched a gated store's home page and the scrape ended as skipped.
C29_Witness ==
    /\ spc = "done"
    /\ PLAYWRIGHT_ENABLED
    /\ use_playwright_fallback
    /\ _is_shopify_store(homepage_html)
    /\ _is_password_protected(homepage_html)
    /\ result.error = "password_protected"
    /\ Len(calls) = 3

\* A dry call of discover_stores, with any other arguments.
DryStart ==
    \E mq \in (0 - MaxBatch)..MaxBatch, niche \in BOOLEAN : StartRun(mq, niche, TRUE)

\* The discover_stores half: the dry call returns at once with an empty
\* list, no search executed, and the three files as they were.
DryDiscoverQuiet ==
    [][DryStart => /\ dpc' = "done"
                   /\ searched' = <<>>
                   /\ ret' = <<>>
                   /\ files' = files]_vars

\* The run_pipeline half: a dry run goes no further than discovery and
\* returns None.
DryPipelineStops ==
    (ppc # "idle" /\ pargs.dry_run) =>
        /\ \A k \in 1..Len(psteps) : psteps[k] = "discover"
        /\ ppc \in {"discover", "returned"}
        /\ ppc = "returned" => pret = "None"

\* C30: a dry run of discover_stores executes no search, returns an empty
\* list and leaves the cursor file, the ledger file and the stores file
\* unchanged; run_pipeline with dry_run stops after discovery, without
\* scraping, verifying or exporting.
C30_DryRun == DryDiscoverQuiet /\ []DryPipelineStops

(***************************************************************************)
(* generate_csv on lists of outcomes of every status                       *)
(***************************************************************************)
InitExport ==
    /\ DInit /\ SInit /\ CInit /\ BInit /\ RInit
    /\ fname = ""
    /\ fin \in [scrape_results : SeqUpTo(ExportOutcomes, MaxRows),
                verify_results : {PyNone, PyList(<<VerifyResult(<<"owner">>, "safe", "")>>)}]
    /\ fout = <<>>

NextExport == Apply_generate_csv

SpecExport == InitExport /\ [][NextExport]_vars

\* The rows of a list that are of the store and the status and hold the
\* email and the WhatsApp flag of the scrape outcome sr.
RowsOf(rows, sr) ==
    {k \in 1..Len(rows) :
        /\ rows[k].domain = PyStr(sr.domain)
        /\ rows[k].scrape_status = sr.scrape_status
        /\ rows[k].email = PyStr(IF sr.email = None THEN <<>> ELSE sr.email)
        /\ rows[k].has_whatsapp = PyBoolean(sr.has_whatsapp)}

\* C31: the exported list has a row for a scrape outcome if and only if its
\* status is "success": failed and skipped outcomes have no row, and a
\* successful outcome has one row for each time it is in the input.
C31_OnlySuccessExported ==
    fname = "generate_csv" =>
        /\ fout.raised = ""
        /\ \A k \in 1..Len(fout.value) : fout.value[k].scrape_status = "success"
        /\ \A sr \in ExportOutcomes :
              Cardinality(RowsOf(fout.value, sr)) =
                  IF sr.scrape_status = "success"
                  THEN Count(fin.scrape_results, sr) ELSE 0
        /\ Len(fout.value) =
              Cardinality({k \in 1..Len(fin.scrape_results) :
                              fin.scrape_results[k].scrape_status = "success"})

\* C31 witness: a failed, a successful and a skipped outcome went in and
\* the one successful outcome came out.
C31_Witness ==
    /\ fname = "generate_csv"
    /\ Len(fin.scrape_results) = 3
    /\ fin.scrape_results[1].scrape_status = "failed"
    /\ fin.scrape_results[2].scrape_status = "success"
    /\ fin.scrape_results[3].scrape_status = "skipped"
    /\ fout.raised = ""
    /\ Len(fout.value) = 1
    /\ fout.value[1].domain = PyStr(fin.scrape_results[2].domain)

(***************************************************************************)
(* The work of one scrape_store call                                       *)
(***************************************************************************)
\* The requests of the scrape so far: home page attempts, none after one
\* that fetched a page; then the contact paths, each once, in configured
\* order; then the renderer, on the home page and on the first contact path.
BoundedWork ==
    LET h == HomeCalls
        c == ContactCalls
        r == RendererCalls
    IN  /\ calls = h \o c \o r
        /\ Len(h) <= SCRAPE_MAX_RETRIES
        /\ \A k \in 1..(Len(h) - 1) : ~Truthy(h[k].page)
        /\ Len(c) <= Len(CONTACT_PAGE_PATHS)
        /\ \A k \in 1..Len(c) : c[k].url = Url(domain, CONTACT_PAGE_PATHS[k])
        /\ c # <<>> => Truthy(h[Len(h)].page)
        /\ Len(r) <= 2
        /\ Len(r) >= 1 => r[1].url = Url(domain, "")
        /\ Len(r) = 2 => r[2].url = Url(domain, CONTACT_PAGE_PATHS[1])

\* The steps a scrape under way has left at most: home page attempts, the
\* checks, the contact paths, the extraction, the render passes, the result.
Remaining ==
    CASE spc = "fetch_home" -> (SCRAPE_MAX_RETRIES - attempt) + Len(CONTACT_PAGE_PATHS) + 5
      [] spc = "check_home" -> Len(CONTACT_PAGE_PATHS) + 5
      [] spc = "contact" -> (Len(CONTACT_PAGE_PATHS) - cj) + 4
      [] spc = "render" -> (2 - pj) + 1
      [] spc = "build" -> 1
      [] OTHER -> 0

\* A scrape under way is at a loop pass or a statement that can be taken:
\* no loop counter is past its end.
CanStep ==
    /\ spc = "fetch_home" => attempt < SCRAPE_MAX_RETRIES
    /\ spc = "contact" => cj <= Len(CONTACT_PAGE_PATHS)
    /\ spc = "render" => pj < Len(playwright_urls) /\ Len(playwright_urls) <= 2

\* C32: scrape_store terminates with bounded work: at most
\* SCRAPE_MAX_RETRIES home page fetches and none after the first that
\* succeeded, each contact path at most once in configured order after the
\* home page, at most two renderer calls (home page, first contact path);
\* a scrape under way always has a step to take, and every step of it
\* lowers the number of steps left, which is never negative.
C32_BoundedScrape ==
    /\ []BoundedWork
    /\ []CanStep
    /\ [][spc \notin {"idle", "done"} => (Remaining' < Remaining /\ Remaining' >= 0)]_vars

\* C32 witness: a scrape that did all the work there is: the home page at
\* the last attempt, every contact path, and the renderer twice.
C32_Witness ==
    /\ spc = "done"
    /\ Len(HomeCalls) = SCRAPE_MAX_RETRIES
    /\ Len(ContactCalls) = Len(CONTACT_PAGE_PATHS)
    /\ Len(RendererCalls) = 2

(***************************************************************************)
(* Runs with and without the niche templates                               *)
(***************************************************************************)
\* A real run with either value of include_niche.
RunEither ==
    \E mq \in 0..MaxBatch, niche \in BOOLEAN : StartRun(mq, niche, FALSE)

NextNiche ==
    \/ RunEither
    \/ Search
    \/ SaveState
    \/ SaveSeen
    \/ SaveStoresAndReturn

SpecNiche == Init /\ [][NextNiche]_vars

\* C33: the persisted position is applied only to the query list it was
\* advanced over: a run that finds a position an earlier run wrote, and
\* generates another list than that run's, does not take the position over
\* as its own.
C33_CursorCoupling ==
    [][(RunEither /\ Cursor > 0 /\ all_queries' # indexed)
          => state'.query_index # Cursor]_vars

(***************************************************************************)
(* _get_email_priority on addresses                                        *)
(***************************************************************************)
InitPriority ==
    /\ DInit /\ SInit /\ CInit /\ BInit /\ RInit
    /\ fname = ""
    /\ fin \in {local \o <<"@">> \o dom :
                    local \in SeqUpTo(LocalAtoms, MaxPieces) \ {<<>>},
                    dom \in MailDomains}
    /\ fout = <<>>

NextPriority == Apply__get_email_priority

SpecPriority == InitPriority /\ [][NextPriority]_vars

\* The configured keywords that occur in the local part of the address.
KeywordsIn(email) ==
    {k \in 1..Len(EMAIL_PRIORITY) :
        Contains(Lower(UpTo(email, {"@"})), <<EMAIL_PRIORITY[k][1]>>)}

FirstSeen(text, email) ==
    LET raw_emails == FindEmails(text, 1)
        at == {k \in 1..Len(raw_emails) : Lower(raw_emails[k]) = Lower(email)}
    IN  CHOOSE k \in at : \A g \in at : k <= g

\* C35: no two candidates of extract_emails have the same lowercased
\* address, every address returned is in lower case, and candidates of
\* equal priority and free-provider flag are in the order in which they
\* first occur in the text.
C35_DedupFirstSeen ==
    fname = "extract_emails" =>
        /\ \A j, k \in 1..Len(fout) :
              j # k => Lower(fout[j].email) # Lower(fout[k].email)
        /\ \A k \in 1..Len(fout) : fout[k].email = Lower(fout[k].email)
        /\ \A j, k \in 1..Len(fout) :
              (/\ j < k
               /\ fout[j].priority = fout[k].priority
               /\ fout[j].is_free_provider = fout[k].is_free_provider)
                  => FirstSeen(fin, fout[j].email) < FirstSeen(fin, fout[k].email)

\* C35 witness: the text holds admin@x.com, Owner@x.com, owner@x.com in
\* this order; the owner address comes back once, in lower case.
C35_Witness ==
    /\ fname = "extract_emails"
    /\ FindEmails(fin, 1) = << <<"admin", "@", "x", ".com">>,
                                <<"Owner", "@", "x", ".com">>,
                                <<"owner", "@", "x", ".com">> >>
    /\ Len(fout) = 2
    /\ fout[1].email = <<"owner", "@", "x", ".com">>

(***************************************************************************)
(* verify_email against a service that answers as it likes                 *)
(***************************************************************************)
InitVerify ==
    /\ DInit /\ SInit /\ CInit /\ BInit /\ RInit
    /\ fname = ""
    /\ fin \in [email : {<<"owner", "@", "x", ".com">>},
                service : [1..(VERIFY_MAX_RETRIES + 1) -> Responses]]
    /\ fout = <<>>

NextVerify == Apply_verify_email

SpecVerify == InitVerify /\ [][NextVerify]_vars

\* The first request that is answered with HTTP 200 or meets a connection
\* error; 0 if there is none.
Decisive(service) ==
    LET at == {k \in 1..Len(service) : service[k].kind \in {"200", "ConnectionError"}}
    IN  IF at = {} THEN 0 ELSE CHOOSE k \in at : \A g \in at : k <= g

\* C36: verify_email never raises; it makes at most VERIFY_MAX_RETRIES + 1
\* requests; it returns at the first HTTP 200, with no further request and
\* with the status the body gives; at a connection error it returns at once
\* with "unknown" and reacher_unavailable; it goes on after a timeout or
\* another HTTP status, and after the last attempt returns "unknown" with
\* max_retries_exceeded.
C36_BoundedRetry ==
    fname = "verify_email" =>
        LET stop == Decisive(fin.service)
        IN  /\ fout.raised = ""
            /\ fout.requests <= VERIFY_MAX_RETRIES + 1
            /\ stop = 0 =>
                  /\ fout.requests = VERIFY_MAX_RETRIES + 1
                  /\ fout.result.status = "unknown"
                  /\ fout.result.error = "max_retries_exceeded"
            /\ (stop # 0 /\ fin.service[stop].kind = "ConnectionError") =>
                  /\ fout.requests = stop
                  /\ fout.result.status = "unknown"
                  /\ fout.result.error = "reacher_unavailable"
            /\ (stop # 0 /\ fin.service[stop].kind = "200") =>
                  /\ fout.requests = stop
                  /\ "is_reachable" \in DOMAIN fin.service[stop] =>
                        fout.result = _parse_reacher_response(fin.email, fin.service[stop])

(***************************************************************************)
(* step_scrape run by itself between discovery batches                     *)
(***************************************************************************)
\* main.py lines 361-366 and 73-101 (python main.py --step scrape): with no
\* domains given the open entries of the stores file are taken; with none to
\* scrape the call returns at once; otherwise scrape_stores_batch runs and
\* the domains are marked in the stores file.
StepScrape(from_file, given) ==
    /\ Resting
    /\ ppc = "idle"
    /\ LET domains == IF from_file THEN _load_unscraped_domains(storesFile)
                      ELSE given
       IN  /\ domains # <<>>
           /\ storesFile' = _mark_domains_scraped(storesFile, domains)
    /\ UNCHANGED <<svars, xvars, stateFile, seenFile, history, dpc, state, seen,
                   all_queries, batch_size, batch_start, batch_end,
                   batch_queries, i, new_domains, ret, exit, killed_at, p0,
                   ledger0, searched, found>>

\* A discovery batch that writes (not dry), with the default query list.
RunWet == \E mq \in 0..MaxBatch : StartRun(mq, TRUE, FALSE)

ScrapeAlone ==
    \E from_file \in BOOLEAN, given \in SeqUpTo(Domains, MaxDomains) :
        StepScrape(from_file, given)

NextStores ==
    \/ RunWet
    \/ Search
    \/ SaveState
    \/ SaveSeen
    \/ SaveStoresAndReturn
    \/ ScrapeAlone

SpecStores == Init /\ [][NextStores]_vars

\* What the stores file holds after step_scrape for the domains D: the
\* entries of D marked, every other entry as it was.
MarkedFor(D) ==
    /\ Len(storesFile') = Len(storesFile)
    /\ \A k \in 1..Len(storesFile) :
          IF storesFile[k].domain \in Range(D)
          THEN /\ storesFile'[k].domain = storesFile[k].domain
               /\ storesFile'[k].scraped
          ELSE storesFile'[k] = storesFile[k]
    /\ \A k \in 1..Len(storesFile') :
          storesFile'[k].domain \in Range(D) => storesFile'[k].scraped
    /\ Range(_load_unscraped_domains(storesFile')) \cap Range(D) = {}

\* The entries stay where they are and a set flag stays set.
FlagsKept ==
    /\ Len(storesFile') >= Len(storesFile)
    /\ \A k \in 1..Len(storesFile) :
          /\ storesFile'[k].domain = storesFile[k].domain
          /\ storesFile[k].scraped => storesFile'[k].scraped

\* C37: after step_scrape for the domains D every entry of the stores file
\* whose domain is in D is marked scraped and every other entry is as it
\* was, so that _load_unscraped_domains returns no domain of D; and no step,
\* a later discovery batch that appends entries included, turns a flag from
\* true back to false.
C37_ScrapedFlagMonotone ==
    /\ [][\A given \in SeqUpTo(Domains, MaxDomains) :
             /\ StepScrape(FALSE, given) => MarkedFor(given)
             /\ StepScrape(TRUE, given) =>
                    MarkedFor(_load_unscraped_domains(storesFile))]_vars
    /\ [][FlagsKept]_vars

\* step_scrape has marked the entry of one domain, and a batch that ended
\* after it has appended an entry that is still open.
C37_Witness ==
    /\ dpc = "done"
    /\ Len(storesFile) = 2
    /\ storesFile[1].scraped
    /\ ~storesFile[2].scraped
    /\ ret = <<storesFile[2].domain>>

(***************************************************************************)
(* The ledger and the stores file at an interruption                       *)
(***************************************************************************)
\* The domains recorded in the discovered-stores file.
StoredDomains == {storesFile[k].domain : k \in 1..Len(storesFile)}

\* A later run returns as new only what the ledger it loads does not hold
\* (discovery.py lines 330-333).
MayBeReturnedLater(d) == d \notin Ledger

\* C38: when discover_stores is terminated, every domain of the persisted
\* ledger is recorded in the discovered-stores file or can still be returned
\* as new by a later run.
C38_NoDomainLost ==
    dpc = "killed" =>
        \A d \in Ledger : d \in StoredDomains \/ MayBeReturnedLater(d)

(***************************************************************************)
(* The shape of what scrape_store returns                                  *)
(***************************************************************************)
\* C39: every result scrape_store returns has a status among success,
\* failed and skipped; an error reason exactly when the status is not
\* success; has_whatsapp exactly when the confidence is not "none"; a phone
\* only with the confidence "definitive"; with no email the priority 99 and
\* the free-provider flag off; and, when failed or skipped, no email and no
\* messaging signal.
C39_ResultWellFormed ==
    spc = "done" =>
        /\ result.scrape_status \in {"success", "failed", "skipped"}
        /\ (result.error # "") <=> (result.scrape_status # "success")
        /\ result.has_whatsapp <=> (result.whatsapp_confidence # "none")
        /\ result.whatsapp_confidence \in {"none", "maybe", "widget", "definitive"}
        /\ result.whatsapp_phone # None => result.whatsapp_confidence = "definitive"
        /\ result.email = None =>
              /\ result.email_priority = 99
              /\ ~result.email_is_free_provider
        /\ result.scrape_status \in {"failed", "skipped"} =>
              /\ result.email = None
              /\ ~result.has_whatsapp
              /\ result.whatsapp_confidence = "none"
              /\ result.whatsapp_phone = None

\* A successful result with no email and a definitive signal with its phone.
C39_Witness ==
    /\ spc = "done"
    /\ result.scrape_status = "success"
    /\ result.email = None
    /\ result.has_whatsapp
    /\ result.whatsapp_confidence = "definitive"
    /\ result.whatsapp_phone = <<"27821234567">>

(***************************************************************************)
(* normalize_domain applied to what it returns                             *)
(***************************************************************************)
\* C40: a domain d returned by normalize_domain contains a dot, has at least
\* 4 characters, no scheme, no leading www., no port and no path, and
\* normalize_domain(d) = d.
C40_NormalizeIdempotent ==
    (fname = "normalize_domain" /\ fout # None) =>
        /\ \E k \in 1..Len(fout) : HasDot(fout[k])
        /\ StrLen(fout) >= 4
        /\ Head(fout) \notin {"https://", "http://"}
        /\ Head(fout) # "www."
        /\ \A k \in 1..Len(fout) : fout[k] \notin {":", "/"}
        /\ normalize_domain(fout) = fout

====
